---- MODULE Spec2Model ----
(***************************************************************************)
(* A model of the a-apps monorepo core: the migration runner of           *)
(* shared/database (RunMigrations), the share-group visibility resolver   *)
(* of the todo-list app (sharedUsernames), the todo-list handlers that    *)
(* filter rows by it, the projects handlers, the startup sequence of     *)
(* each app's main, the authentication of shared/auth with the login and  *)
(* logout routes, and the shopping-list handlers.                         *)
(***************************************************************************)
EXTENDS Integers, Sequences, FiniteSets, TLC

VARIABLES
    \* ---- migration runner (shared/database/sqlite.go) ----
    active,        \* the runner processes that may start on the store
    tableExists,   \* the store holds the migrations bookkeeping table
    migrations,    \* rows of the migrations table, in insertion order (names)
    pc,            \* per process: position inside RunMigrations
    list,          \* per process: the migrations argument of the run
    idx,           \* per process: loop index i (0-based, as in the code)
    result,        \* per process: what the run returned
    executed,      \* per process: 1-based positions whose statement this run executed
    rowsAtStart,   \* per process: rows of the migrations table when the run started
    fresh,         \* per process: the run started on a fresh store
    execFailed,    \* per process: 1-based position of the statement whose execution
                   \* failed in this run, 0 when none did
    runs,          \* number of runs started on the store
    prev,          \* summary of the last finished run
    execCount,     \* per position: successful executions over the store's lifetime
    sameList,      \* every run so far was given the same list
    \* ---- identity roster and resolver (todo-list handlers) ----
    Users,         \* Handler.Users, the roster loaded at process start
    visCaller,     \* argument of the last sharedUsernames call
    visResult,     \* its return value
    visPc,         \* "idle" before the first call, "returned" after a call
    \* ---- todo-list store (tables stores and items) and last request ----
    stores,        \* rows of table stores:  [id, name, username]
    items,         \* rows of table items:   [id, store_id, name, username, checked]
    nextStoreID,   \* AUTOINCREMENT counter of stores
    nextItemID,    \* AUTOINCREMENT counter of items
    resp,          \* the last response: a rendered stores grid, or another body
    \* ---- projects store (tables projects and log_entries) ----
    projects,      \* rows of table projects
    logEntries,    \* rows of table log_entries: [id, project_id, parent_id,
                   \* username, note], parent_id 0 for NULL
    projOrder,     \* project ids by updated_at, latest first
    nextProjectID, \* AUTOINCREMENT counter of projects
    nextLogID,     \* AUTOINCREMENT counter of log_entries
    \* ---- process startup (apps/*/main.go) ----
    app,           \* the app whose main runs
    mainPc,        \* position inside main
    \* ---- authentication (shared/auth) ----
    basePath,      \* the base path the middleware is configured with
    jar,           \* the browser's auth_token cookie: a token, or NoCookie
    authResp,      \* the last exchange on Login, Logout or a protected route
    \* ---- a todo-list request between two of its statements ----
    inflight       \* the CreateItem request that passed storeAccessible and
                   \* has not inserted yet, or NoRequest

migVars == <<active, tableExists, migrations, pc, list, idx, result, executed,
             rowsAtStart, fresh, execFailed, runs, prev, execCount, sameList>>
visVars == <<visCaller, visResult, visPc>>
todoVars == <<stores, items, nextStoreID, nextItemID, resp>>
projVars == <<projects, logEntries, projOrder, nextProjectID, nextLogID>>
mainVars == <<app, mainPc>>
authVars == <<basePath, jar, authResp>>
vars == <<migVars, Users, visVars, todoVars, projVars, mainVars, authVars, inflight>>

----------------------------------------------------------------------------
(* Bounds *)

MaxRoster == 3
MaxLen == 3
MaxRuns == 2
MaxStores == 2
MaxItems == 2
MaxProjects == 2
MaxLogs == 2
MaxThread == 3

----------------------------------------------------------------------------
(* Identity roster: models.UserFromConfig, Handler.Users *)

RosterNames == {"alice", "bob", "carol"}
Groups == {"", "household", "work"}

UserFromConfig == [Username : RosterNames, ShareGroup : Groups]

SeqsUpTo(S, n) == UNION {[1..k -> S] : k \in 0..n}

Rosters == SeqsUpTo(UserFromConfig, MaxRoster)

\* Caller identities: the roster names, a name no roster holds, and the
\* empty string (GetUsername's zero value).
CallerNames == RosterNames \cup {"dave", ""}

Range(s) == {s[i] : i \in DOMAIN s}

UniqueUsernames(users) ==
    \A i, j \in DOMAIN users : users[i].Username = users[j].Username => i = j

\* The roster of the end-to-end scenario.
ExampleRoster ==
    << [Username |-> "alice", ShareGroup |-> "household"],
       [Username |-> "bob",   ShareGroup |-> "household"],
       [Username |-> "carol", ShareGroup |-> ""] >>

----------------------------------------------------------------------------
(* sharedUsernames, handler.go:241-270 *)

\* First loop (247-252): the share group of the first entry named username,
\* "" when there is none.
RECURSIVE lookupGroup(_, _, _)
lookupGroup(users, username, i) ==
    IF i > Len(users) THEN ""
    ELSE IF users[i].Username = username THEN users[i].ShareGroup
    ELSE lookupGroup(users, username, i + 1)

\* Second loop (258-263): the usernames of the entries of the group, in
\* roster order, one per entry.
RECURSIVE collectGroup(_, _, _)
collectGroup(users, group, i) ==
    IF i > Len(users) THEN <<>>
    ELSE IF users[i].ShareGroup = group
         THEN <<users[i].Username>> \o collectGroup(users, group, i + 1)
         ELSE collectGroup(users, group, i + 1)

\* Mutants of the resolver: one that answers with the caller alone, one that
\* widens to the whole roster, one that expands the empty label as a group.
sharedUsernamesSolo(username) == <<username>>

sharedUsernamesAll(username) ==
    IF Len(Users) = 0 THEN <<username>>
    ELSE [i \in 1..Len(Users) |-> Users[i].Username]

sharedUsernamesNoGroupCheck(username) ==
    LET shared == collectGroup(Users, lookupGroup(Users, username, 1), 1)
    IN  IF Len(shared) = 0 THEN <<username>> ELSE shared

\* Mutant: the group is widened by the entries that carry no label.
sharedUsernamesWithUnlabelled(username) ==
    IF username = "" THEN <<"">>
    ELSE LET group == lookupGroup(Users, username, 1) IN
         IF group = "" THEN <<username>>
         ELSE collectGroup(Users, group, 1) \o collectGroup(Users, "", 1)

sharedUsernames(username) ==
    IF username = "" THEN <<"">>
    ELSE LET group == lookupGroup(Users, username, 1) IN
         IF group = "" THEN <<username>>
         ELSE LET shared == collectGroup(Users, group, 1) IN
              IF Len(shared) = 0 THEN <<username>> ELSE shared

----------------------------------------------------------------------------
(* RunMigrations, shared/database/sqlite.go:42-82 *)

Procs == {1, 2}

\* Schema-change statements are opaque text to the runner.
Stmts == {"S1", "S2"}

MigrationLists == SeqsUpTo(Stmts, MaxLen)

\* What a run returns: nil or one of the four wrapped errors; the record
\* error wraps (%w) either a store failure or the UNIQUE constraint on name.
Nil == "nil"
ErrCreate == "failed to create migrations table"
ErrStatus == "failed to check migration status"
ErrApply == "failed to apply migration"
ErrRecord == "failed to record migration"
ErrRecordDup == "failed to record migration: UNIQUE constraint failed"

Digit(d) ==
    CASE d = 0 -> "0" [] d = 1 -> "1" [] d = 2 -> "2" [] d = 3 -> "3"
      [] d = 4 -> "4" [] d = 5 -> "5" [] d = 6 -> "6" [] d = 7 -> "7"
      [] d = 8 -> "8" [] d = 9 -> "9"

RECURSIVE Decimal(_)
Decimal(n) == IF n < 10 THEN Digit(n) ELSE Decimal(n \div 10) \o Digit(n % 10)

\* fmt.Sprintf("%03d", n): decimal, zero-padded to a width of at least 3.
Pad3(n) ==
    IF n < 10 THEN "00" \o Decimal(n)
    ELSE IF n < 100 THEN "0" \o Decimal(n)
    ELSE Decimal(n)

\* Mutant: the name derived from the 0-based loop index.
migrationNameZeroBased(i) == "migration_" \o Pad3(i)

\* Line 57: name := fmt.Sprintf("migration_%03d", i+1), i the 0-based index.
migrationName(i) == "migration_" \o Pad3(i + 1)

\* SELECT COUNT(*) FROM migrations WHERE name = ?
countRows(name) == Cardinality({k \in DOMAIN migrations : migrations[k] = name})

NoRun == [none |-> TRUE]

\* The run of process p as a record (kept in prev when p starts its next run).
RunSummary(p) ==
    [list |-> list[p], result |-> result[p], idx |-> idx[p],
     executed |-> executed[p], rowsAtStart |-> rowsAtStart[p],
     fresh |-> fresh[p]]

everStarted(q) == pc[q] # "idle"

\* return err / return nil: the run ends, the position i stays where it was.
Return(p, r) ==
    /\ pc' = [pc EXCEPT ![p] = "done"]
    /\ result' = [result EXCEPT ![p] = r]

\* The loop header `for i, migration := range migrations` entered with index i:
\* the next statement is checked, or the list is exhausted and nil returned.
LoopAt(p, i) ==
    /\ idx' = [idx EXCEPT ![p] = i]
    /\ IF i < Len(list[p])
       THEN /\ pc' = [pc EXCEPT ![p] = "check"]
            /\ UNCHANGED result
       ELSE Return(p, Nil)

\* A store on which no statement was executed and no row recorded.
FreshStore == migrations = <<>> /\ \A i \in DOMAIN execCount : execCount[i] = 0

\* A process starts and calls db.RunMigrations(l) (main.go:54).
StartRun(p, l) ==
    /\ p \in active
    /\ pc[p] \in {"idle", "done"}
    /\ runs < MaxRuns
    /\ runs' = runs + 1
    /\ pc' = [pc EXCEPT ![p] = "create"]
    /\ list' = [list EXCEPT ![p] = l]
    /\ idx' = [idx EXCEPT ![p] = 0]
    /\ result' = [result EXCEPT ![p] = Nil]
    /\ executed' = [executed EXCEPT ![p] = <<>>]
    /\ rowsAtStart' = [rowsAtStart EXCEPT ![p] = migrations]
    /\ fresh' = [fresh EXCEPT ![p] = FreshStore]
    /\ execFailed' = [execFailed EXCEPT ![p] = 0]
    /\ prev' = IF pc[p] = "done" THEN RunSummary(p) ELSE prev
    /\ sameList' = (sameList /\ \A q \in Procs : everStarted(q) => list[q] = l)
    /\ UNCHANGED <<active, tableExists, migrations, execCount>>

\* Lines 44-53: CREATE TABLE IF NOT EXISTS migrations; ok is the store's answer.
CreateTable(p, ok) ==
    /\ pc[p] = "create"
    /\ IF ok
       THEN /\ tableExists' = TRUE
            /\ LoopAt(p, 0)
       ELSE /\ Return(p, ErrCreate)
            /\ UNCHANGED <<tableExists, idx>>
    /\ UNCHANGED <<active, migrations, list, executed, rowsAtStart, fresh,
                   execFailed, runs, prev, execCount, sameList>>

\* Mutant: the status check never finds a row, so nothing is ever skipped.
CheckAppliedNever(p, ok) ==
    /\ pc[p] = "check"
    /\ IF ~ok
       THEN Return(p, ErrStatus) /\ UNCHANGED idx
       ELSE pc' = [pc EXCEPT ![p] = "apply"] /\ UNCHANGED <<idx, result>>
    /\ UNCHANGED <<active, tableExists, migrations, list, executed, rowsAtStart,
                   fresh, execFailed, runs, prev, execCount, sameList>>

\* Lines 57-68: derive the name, query the count, skip when count > 0.
CheckApplied(p, ok) ==
    /\ pc[p] = "check"
    /\ IF ~ok
       THEN Return(p, ErrStatus) /\ UNCHANGED idx
       ELSE IF countRows(migrationName(idx[p])) > 0
            THEN LoopAt(p, idx[p] + 1)
            ELSE pc' = [pc EXCEPT ![p] = "apply"] /\ UNCHANGED <<idx, result>>
    /\ UNCHANGED <<active, tableExists, migrations, list, executed, rowsAtStart,
                   fresh, execFailed, runs, prev, execCount, sameList>>

\* Mutant: a failed statement is logged and the loop goes on to the insert.
ApplyMigrationSwallow(p, ok) ==
    /\ pc[p] = "apply"
    /\ pc' = [pc EXCEPT ![p] = "record"]
    /\ IF ok
       THEN /\ executed' = [executed EXCEPT ![p] = Append(@, idx[p] + 1)]
            /\ execCount' = [execCount EXCEPT ![idx[p] + 1] = @ + 1]
       ELSE UNCHANGED <<executed, execCount>>
    /\ execFailed' = [execFailed EXCEPT ![p] = IF ok \/ @ # 0 THEN @ ELSE idx[p] + 1]
    /\ UNCHANGED <<active, tableExists, migrations, list, idx, result, rowsAtStart,
                   fresh, runs, prev, sameList>>

\* Lines 70-73: db.Exec(migration); ok is the store's answer for the statement.
ApplyMigration(p, ok) ==
    /\ pc[p] = "apply"
    /\ IF ok
       THEN /\ executed' = [executed EXCEPT ![p] = Append(@, idx[p] + 1)]
            /\ execCount' = [execCount EXCEPT ![idx[p] + 1] = @ + 1]
            /\ pc' = [pc EXCEPT ![p] = "record"]
            /\ UNCHANGED <<result, execFailed>>
       ELSE /\ Return(p, ErrApply)
            /\ execFailed' = [execFailed EXCEPT ![p] = idx[p] + 1]
            /\ UNCHANGED <<executed, execCount>>
    /\ UNCHANGED <<active, tableExists, migrations, list, idx, rowsAtStart,
                   fresh, runs, prev, sameList>>

\* Mutant: the bookkeeping insert is left out.
RecordMigrationNoInsert(p, ok) ==
    /\ pc[p] = "record"
    /\ IF ok
       THEN LoopAt(p, idx[p] + 1) /\ UNCHANGED migrations
       ELSE Return(p, ErrRecord) /\ UNCHANGED <<migrations, idx>>
    /\ UNCHANGED <<active, tableExists, list, executed, rowsAtStart, fresh,
                   execFailed, runs, prev, execCount, sameList>>

\* Mutant: the name column without its UNIQUE constraint.
RecordMigrationNoUnique(p, ok) ==
    /\ pc[p] = "record"
    /\ IF ok
       THEN /\ migrations' = Append(migrations, migrationName(idx[p]))
            /\ LoopAt(p, idx[p] + 1)
       ELSE /\ Return(p, ErrRecord)
            /\ UNCHANGED <<migrations, idx>>
    /\ UNCHANGED <<active, tableExists, list, executed, rowsAtStart, fresh,
                   execFailed, runs, prev, execCount, sameList>>

\* Mutant: a failed bookkeeping insert is swallowed and the loop goes on.
RecordMigrationSwallow(p, ok) ==
    /\ pc[p] = "record"
    /\ IF ok /\ countRows(migrationName(idx[p])) = 0
       THEN migrations' = Append(migrations, migrationName(idx[p]))
       ELSE UNCHANGED migrations
    /\ LoopAt(p, idx[p] + 1)
    /\ UNCHANGED <<active, tableExists, list, executed, rowsAtStart, fresh,
                   execFailed, runs, prev, execCount, sameList>>

\* Lines 75-78: INSERT INTO migrations (name); the insert fails on a store
\* error (ok = FALSE) and on the UNIQUE constraint of the name column.
RecordMigration(p, ok) ==
    /\ pc[p] = "record"
    /\ IF ok /\ countRows(migrationName(idx[p])) = 0
       THEN /\ migrations' = Append(migrations, migrationName(idx[p]))
            /\ LoopAt(p, idx[p] + 1)
       ELSE /\ Return(p, IF ok THEN ErrRecordDup ELSE ErrRecord)
            /\ UNCHANGED <<migrations, idx>>
    /\ UNCHANGED <<active, tableExists, list, executed, rowsAtStart, fresh,
                   execFailed, runs, prev, execCount, sameList>>

\* A response that is not a stores grid (an item fragment, a header, an error).
OtherBody == [grid |-> FALSE]

MigIdle ==
    /\ tableExists = FALSE
    /\ migrations = <<>>
    /\ pc = [p \in Procs |-> "idle"]
    /\ list = [p \in Procs |-> <<>>]
    /\ idx = [p \in Procs |-> 0]
    /\ result = [p \in Procs |-> Nil]
    /\ executed = [p \in Procs |-> <<>>]
    /\ rowsAtStart = [p \in Procs |-> <<>>]
    /\ fresh = [p \in Procs |-> TRUE]
    /\ execFailed = [p \in Procs |-> 0]
    /\ runs = 0
    /\ prev = NoRun
    /\ execCount = [i \in 1..MaxLen |-> 0]
    /\ sameList = TRUE

VisIdle ==
    /\ visCaller = ""
    /\ visResult = <<>>
    /\ visPc = "idle"

TodoIdle ==
    /\ stores = {}
    /\ items = {}
    /\ nextStoreID = 1
    /\ nextItemID = 1
    /\ resp = OtherBody

ProjIdle ==
    /\ projects = {}
    /\ logEntries = {}
    /\ projOrder = <<>>
    /\ nextProjectID = 1
    /\ nextLogID = 1

\* No main is modelled: the component is exercised on its own.
MainIdle ==
    /\ app = "none"
    /\ mainPc = "none"

NoCookie == [none |-> TRUE]
NoRequest == [none |-> TRUE]

\* An exchange on the login, logout or a protected route: the request (its
\* auth_token cookie, its form values) and the response (status, Location,
\* Set-Cookie, whether the wrapped handler ran and with which username in
\* the request context).
Exchange(kind, cookie, username, password, status, location, setCookie, ran, ctx) ==
    [kind |-> kind, cookie |-> cookie, username |-> username,
     password |-> password, status |-> status, location |-> location,
     setCookie |-> setCookie, ran |-> ran, ctx |-> ctx]

NoExchange == Exchange("none", NoCookie, "", "", 0, <<>>, NoCookie, FALSE, "")

\* No login or protected request was made, no request is half way.
AuthIdle ==
    /\ basePath = <<>>
    /\ jar = NoCookie
    /\ authResp = NoExchange
    /\ inflight = NoRequest

\* One runner process at a time on a fresh store (the deployment of §5).
InitMig ==
    /\ active = {1}
    /\ MigIdle
    /\ Users = <<>>
    /\ VisIdle
    /\ TodoIdle
    /\ ProjIdle
    /\ MainIdle
    /\ AuthIdle

NextMig ==
    \/ \E p \in Procs, l \in MigrationLists :
          StartRun(p, l) /\ UNCHANGED <<Users, visVars, todoVars, projVars, mainVars, authVars, inflight>>
    \/ \E p \in Procs, ok \in BOOLEAN :
          CreateTable(p, ok) /\ UNCHANGED <<Users, visVars, todoVars, projVars, mainVars, authVars, inflight>>
    \/ \E p \in Procs, ok \in BOOLEAN :
          CheckApplied(p, ok) /\ UNCHANGED <<Users, visVars, todoVars, projVars, mainVars, authVars, inflight>>
    \/ \E p \in Procs, ok \in BOOLEAN :
          ApplyMigration(p, ok) /\ UNCHANGED <<Users, visVars, todoVars, projVars, mainVars, authVars, inflight>>
    \/ \E p \in Procs, ok \in BOOLEAN :
          RecordMigration(p, ok) /\ UNCHANGED <<Users, visVars, todoVars, projVars, mainVars, authVars, inflight>>

SpecMig == InitMig /\ [][NextMig]_vars

----------------------------------------------------------------------------
(* Properties of the migration runner, checked under SpecMig *)

\* The bookkeeping names spelled out: migration_ followed by the 1-indexed,
\* 3-digit zero-padded ordinal.
ExpectedNames ==
    << "migration_001", "migration_002", "migration_003", "migration_004",
       "migration_005", "migration_006", "migration_007", "migration_008",
       "migration_009" >>

ExpectedName(j) == ExpectedNames[j]

\* Rows of the migrations table inserted since the run of p started.
RowsAdded(p) ==
    {migrations[k] : k \in (Len(rowsAtStart[p]) + 1)..Len(migrations)}

\* The run of p follows a finished run (summarized in prev) on the same store.
FollowsRun(p) == prev # NoRun /\ pc[p] # "idle"

\* new is old with (at most) the statement at position k replaced.
CorrectedAt(old, new, k) ==
    /\ Len(new) = Len(old)
    /\ \A j \in DOMAIN old : j # k => new[j] = old[j]

\* C1 -- Idempotency: once RunMigrations has returned nil for a list of N
\* statements on a fresh store, a second run with the identical list executes
\* no statement, inserts no bookkeeping row (the table keeps its N rows) and
\* returns nil; the only errors it can return are those of a store that fails
\* the CREATE TABLE IF NOT EXISTS or a status query, never an apply or record
\* error.
C1_Idempotent ==
    \A p \in active :
        (FollowsRun(p) /\ prev.fresh /\ prev.result = Nil /\ list[p] = prev.list)
        => /\ executed[p] = <<>>
           /\ migrations = rowsAtStart[p]
           /\ Len(migrations) = Len(list[p])
           /\ pc[p] \notin {"apply", "record"}
           /\ pc[p] = "done" => result[p] \in {Nil, ErrCreate, ErrStatus}

C1_Witness ==
    /\ prev # NoRun /\ prev.fresh /\ prev.result = Nil
    /\ Len(prev.list) = 3 /\ Len(prev.executed) = 3
    /\ pc[1] = "done" /\ list[1] = prev.list /\ result[1] = Nil
    /\ Len(migrations) = 3

\* C2 -- At most once: over any sequence of runs on one store with the same
\* list, runs that stop with an error included, each statement of the list is
\* executed at most once.
C2_AtMostOnce ==
    sameList => \A i \in DOMAIN execCount : execCount[i] <= 1

\* C3 -- Partial-failure boundary: on a fresh store, when the execution of
\* statement k fails, the bookkeeping table afterwards holds exactly the rows
\* of statements 1..k-1; a later successful run with statement k corrected
\* executes exactly the statements k..N, in order, each once.
C3_PartialFailure ==
    \A p \in active :
        /\ (pc[p] = "done" /\ fresh[p] /\ result[p] = ErrApply)
           => migrations = [j \in 1..idx[p] |-> ExpectedName(j)]
        /\ (/\ FollowsRun(p) /\ prev.fresh /\ prev.result = ErrApply
            /\ pc[p] = "done" /\ result[p] = Nil
            /\ CorrectedAt(prev.list, list[p], prev.idx + 1))
           => executed[p] = [j \in 1..(Len(list[p]) - prev.idx) |-> prev.idx + j]

C3_Witness ==
    /\ prev # NoRun /\ prev.fresh /\ prev.result = ErrApply /\ prev.idx = 1
    /\ Len(prev.list) = 3 /\ prev.rowsAtStart = <<>>
    /\ pc[1] = "done" /\ result[1] = Nil
    /\ CorrectedAt(prev.list, list[1], 2) /\ list[1][2] # prev.list[2]
    /\ rowsAtStart[1] = <<"migration_001">>
    /\ executed[1] = <<2, 3>>

\* C4 -- Fail fast: the first statement whose execution fails ends the run
\* with a non-nil error; that statement is not recorded in the bookkeeping
\* table and no statement at a later position is executed or recorded in
\* that run.
C4_FailFast ==
    \A p \in active :
        execFailed[p] # 0
        => /\ pc[p] = "done"
           /\ result[p] = ErrApply
           /\ idx[p] + 1 = execFailed[p]
           /\ ExpectedName(execFailed[p]) \notin Range(migrations)
           /\ \A j \in Range(executed[p]) : j < execFailed[p]
           /\ \A j \in execFailed[p]..Len(list[p]) :
                  ExpectedName(j) \notin RowsAdded(p)

C4_Witness ==
    /\ execFailed[1] = 2 /\ Len(list[1]) = 3
    /\ pc[1] = "done" /\ result[1] = ErrApply
    /\ executed[1] = <<1>> /\ migrations = <<"migration_001">>

\* C5 -- Ordinal name, not content, determines application identity: the
\* statement at position j is skipped exactly when the name migration_ plus
\* the 1-indexed 3-digit ordinal j is already recorded, whatever its text;
\* so after a list was applied successfully, a run with a list of the same
\* length (the same statements reordered, say) executes nothing and adds no
\* bookkeeping row.
C5_OrdinalIdentity ==
    \A p \in active :
        /\ \A j \in 1..idx[p] :
               (j \notin Range(executed[p]))
                   <=> (ExpectedName(j) \in Range(rowsAtStart[p]))
        /\ (pc[p] \in {"apply", "record"}
               \/ (pc[p] = "done" /\ result[p] \in {ErrApply, ErrRecord}))
           => ExpectedName(idx[p] + 1) \notin Range(rowsAtStart[p])
        /\ (FollowsRun(p) /\ prev.result = Nil /\ Len(list[p]) = Len(prev.list))
           => executed[p] = <<>> /\ migrations = rowsAtStart[p]

C5_Witness ==
    /\ prev # NoRun /\ prev.result = Nil /\ prev.list = <<"S1", "S2">>
    /\ prev.executed = <<1, 2>>
    /\ pc[1] = "done" /\ list[1] = <<"S2", "S1">> /\ result[1] = Nil
    /\ executed[1] = <<>>
    /\ migrations = <<"migration_001", "migration_002">>

\* The 1-based positions of list l whose name is not among rows, ascending.
Unrecorded(l, rows) ==
    SelectSeq([j \in 1..Len(l) |-> j], LAMBDA j : ExpectedName(j) \notin Range(rows))

\* C15 -- Success postcondition: whenever a run has returned nil for a list
\* of N statements, the migrations table holds a row for each of the names
\* migration_001 .. migration_N, and the statements the run executed are
\* exactly those whose name was not recorded when the run started, each
\* once, in list order.
C15_SuccessPostcondition ==
    \A p \in Procs :
        (pc[p] = "done" /\ result[p] = Nil)
        => /\ \A j \in 1..Len(list[p]) : ExpectedName(j) \in Range(migrations)
           /\ executed[p] = Unrecorded(list[p], rowsAtStart[p])

\* A run over three statements on a store that had the first two recorded.
C15_Witness ==
    /\ pc[1] = "done" /\ result[1] = Nil /\ Len(list[1]) = 3
    /\ rowsAtStart[1] = <<"migration_001", "migration_002">>
    /\ executed[1] = <<3>>
    /\ migrations = <<"migration_001", "migration_002", "migration_003">>

\* C16 -- Bookkeeping rows are only ever added: no step of RunMigrations
\* changes or removes a row of the migrations table, and a step that adds a
\* row adds one row, for the name of the position the same run executed
\* successfully last, from its insert statement.
C16_RowsOnlyAdded ==
    [][/\ Len(migrations') >= Len(migrations)
       /\ SubSeq(migrations', 1, Len(migrations)) = migrations
       /\ migrations' # migrations
          => \E p \in Procs :
                 /\ pc[p] = "record"
                 /\ Len(executed[p]) > 0
                 /\ executed[p][Len(executed[p])] = idx[p] + 1
                 /\ migrations'
                      = Append(migrations, ExpectedName(executed[p][Len(executed[p])]))
      ]_vars

\* Mid-run: the second statement was executed and its row has just been
\* added behind the first.
C16_Witness ==
    /\ pc[1] = "check" /\ idx[1] = 2 /\ Len(list[1]) = 3
    /\ rowsAtStart[1] = <<>> /\ executed[1] = <<1, 2>>
    /\ migrations = <<"migration_001", "migration_002">>

\* C17 -- With runs one after another on a store (one runner process, any
\* lists, any earlier failures) the insert into the migrations table never
\* fails on the unique-name constraint: no run, current or earlier, returns
\* the duplicate-name error, and whenever a run is about to insert, the
\* name is not in the table.
C17_NoDuplicateErrorSequential ==
    /\ \A p \in Procs :
           /\ result[p] # ErrRecordDup
           /\ pc[p] = "record" => countRows(migrationName(idx[p])) = 0
    /\ prev # NoRun => prev.result # ErrRecordDup

\* After a run whose insert failed on a store error, the next run executes
\* the statement again and inserts its row without a conflict.
C17_Witness ==
    /\ prev # NoRun /\ prev.result = ErrRecord /\ prev.executed = <<1>>
    /\ pc[1] = "done" /\ result[1] = Nil /\ executed[1] = <<1>>
    /\ migrations = <<"migration_001">>

\* C28 -- No gap: after any sequence of runs of RunMigrations (lists of any
\* lengths, runs that succeeded or failed) the recorded names are exactly
\* migration_001 .. migration_m for some m >= 0; a position i is never
\* recorded while some position j < i is unrecorded.
C28_RecordedPrefix ==
    /\ \E m \in 0..MaxLen :
           Range(migrations) = {ExpectedName(j) : j \in 1..m}
    /\ \A i \in 1..MaxLen : \A j \in 1..(i - 1) :
           ExpectedName(i) \in Range(migrations)
               => ExpectedName(j) \in Range(migrations)

\* A run that failed at statement 2 of 2, then a successful run of a list of
\* 3 statements: the second run skipped 1 and recorded 2 and 3.
C28_Witness ==
    /\ prev # NoRun /\ prev.result = ErrApply /\ prev.idx = 1
    /\ Len(prev.list) = 2
    /\ pc[1] = "done" /\ result[1] = Nil /\ Len(list[1]) = 3
    /\ rowsAtStart[1] = <<"migration_001">>
    /\ executed[1] = <<2, 3>>
    /\ Len(migrations) = 3

----------------------------------------------------------------------------
(* Two runner processes on one store, given the same list (two deployments *)
(* started against the same database file)                                 *)

\* A process starts its run with the list the other process was given.
StartRace(p, l) ==
    /\ \A q \in Procs : everStarted(q) => list[q] = l
    /\ StartRun(p, l)

InitRace ==
    /\ active = Procs
    /\ MigIdle
    /\ Users = <<>>
    /\ VisIdle
    /\ TodoIdle
    /\ ProjIdle
    /\ MainIdle
    /\ AuthIdle

NextRace ==
    \/ \E p \in Procs, l \in MigrationLists :
          StartRace(p, l) /\ UNCHANGED <<Users, visVars, todoVars, projVars, mainVars, authVars, inflight>>
    \/ \E p \in Procs, ok \in BOOLEAN :
          CreateTable(p, ok) /\ UNCHANGED <<Users, visVars, todoVars, projVars, mainVars, authVars, inflight>>
    \/ \E p \in Procs, ok \in BOOLEAN :
          CheckApplied(p, ok) /\ UNCHANGED <<Users, visVars, todoVars, projVars, mainVars, authVars, inflight>>
    \/ \E p \in Procs, ok \in BOOLEAN :
          ApplyMigration(p, ok) /\ UNCHANGED <<Users, visVars, todoVars, projVars, mainVars, authVars, inflight>>
    \/ \E p \in Procs, ok \in BOOLEAN :
          RecordMigration(p, ok) /\ UNCHANGED <<Users, visVars, todoVars, projVars, mainVars, authVars, inflight>>

SpecRace == InitRace /\ [][NextRace]_vars

\* C18 -- Two runner processes interleaved on one store with the same list:
\* in every reachable state every name is recorded at most once; and when
\* both runs have ended and both executed the statement at a position j, one
\* of them stopped at j on its bookkeeping insert and returned an error, not
\* nil -- the duplicate-name error, unless the store itself failed that
\* insert.
C18_RaceDuplicateError ==
    /\ \A k \in DOMAIN migrations : countRows(migrations[k]) = 1
    /\ \A j \in 1..MaxLen :
           (/\ pc[1] = "done" /\ pc[2] = "done"
            /\ j \in Range(executed[1]) /\ j \in Range(executed[2]))
           => \E p \in Procs :
                  /\ idx[p] = j - 1
                  /\ result[p] \in {ErrRecordDup, ErrRecord}
                  /\ ExpectedName(j) \notin Range(migrations)
                     => result[1] = ErrRecord /\ result[2] = ErrRecord

\* Both processes executed the first statement; process 1 recorded it and
\* went on to return nil, process 2 failed on the duplicate name.
C18_Witness ==
    /\ pc[1] = "done" /\ pc[2] = "done"
    /\ executed[1] = <<1, 2>> /\ executed[2] = <<1>>
    /\ result[1] = Nil /\ result[2] = ErrRecordDup
    /\ migrations = <<"migration_001", "migration_002">>

----------------------------------------------------------------------------
(* The resolver exercised on its own: any roster, any caller *)

\* A handler calls h.sharedUsernames(c).
CallSharedUsernames(c) ==
    /\ visCaller' = c
    /\ visResult' = sharedUsernames(c)
    /\ visPc' = "returned"
    /\ UNCHANGED <<migVars, Users, todoVars, projVars, mainVars, authVars, inflight>>

InitVis ==
    /\ active = {}
    /\ MigIdle
    /\ Users \in Rosters
    /\ VisIdle
    /\ TodoIdle
    /\ ProjIdle
    /\ MainIdle
    /\ AuthIdle

NextVis == \E c \in CallerNames : CallSharedUsernames(c)

SpecVis == InitVis /\ [][NextVis]_vars

\* Positions of the roster entries named c, and of those labelled g.
EntriesNamed(c) == {i \in DOMAIN Users : Users[i].Username = c}
EntriesOfGroup(g) == {i \in DOMAIN Users : Users[i].ShareGroup = g}

InRoster(c) == EntriesNamed(c) # {}

\* The caller's roster entry: the first one carrying its name.
CallerEntry(c) ==
    Users[CHOOSE i \in EntriesNamed(c) : \A k \in EntriesNamed(c) : i <= k]

NoDuplicates(s) == \A i, j \in DOMAIN s : s[i] = s[j] => i = j

\* s lists, in roster order, the usernames of the entries at the positions I.
ListsEntries(s, I) ==
    /\ Len(s) = Cardinality(I)
    /\ \A k \in DOMAIN s :
           \E i \in I : /\ Cardinality({m \in I : m <= i}) = k
                        /\ s[k] = Users[i].Username

\* C6 -- Visibility group expansion: for a caller whose roster entry has a
\* non-empty share-group label, sharedUsernames returns exactly the usernames
\* of the roster entries carrying that label, the caller included and no
\* entry of another group or of no group.
C6_GroupExpansion ==
    (visPc = "returned" /\ InRoster(visCaller)
        /\ CallerEntry(visCaller).ShareGroup # "")
    => /\ ListsEntries(visResult,
                       EntriesOfGroup(CallerEntry(visCaller).ShareGroup))
       /\ visCaller \in Range(visResult)
       /\ (Users = ExampleRoster /\ visCaller = "alice")
              => visResult = <<"alice", "bob">>

C6_Witness ==
    /\ Users = ExampleRoster
    /\ visPc = "returned" /\ visCaller = "alice"
    /\ visResult = <<"alice", "bob">>

\* C7 -- Visibility singleton default: for a caller absent from the roster,
\* or whose roster entry has an empty share-group label, sharedUsernames
\* returns the one-element list [caller], even when other roster entries
\* have an empty label too.
C7_SingletonDefault ==
    (visPc = "returned"
        /\ (~InRoster(visCaller) \/ CallerEntry(visCaller).ShareGroup = ""))
    => visResult = <<visCaller>>

C7_Witness ==
    /\ visPc = "returned" /\ visCaller = "carol" /\ visResult = <<"carol">>
    /\ Len(Users) = 3
    /\ Users[1] = [Username |-> "alice", ShareGroup |-> ""]
    /\ Users[2] = [Username |-> "carol", ShareGroup |-> ""]
    /\ Users[3].ShareGroup = "household"

\* C8 (as claimed) -- for every caller and every roster the returned list is
\* non-empty, contains the caller's own name and contains no name twice.
C8_NonEmptyOwnNameNoDup ==
    visPc = "returned"
    => /\ Len(visResult) >= 1
       /\ visCaller \in Range(visResult)
       /\ NoDuplicates(visResult)

\* C8 (amended) -- for every caller and every roster the returned list is
\* non-empty and contains the caller's own name; it contains no name twice
\* when the usernames of the roster are unique.
C8_NonEmptyOwnName ==
    visPc = "returned"
    => /\ Len(visResult) >= 1
       /\ visCaller \in Range(visResult)
       /\ UniqueUsernames(Users) => NoDuplicates(visResult)

C8_Witness ==
    /\ visPc = "returned" /\ UniqueUsernames(Users) /\ Len(Users) = 3
    /\ visCaller = "bob" /\ Len(visResult) = 2
    /\ Range(visResult) = {"bob", "carol"}

\* C12 -- The visibility sets form equivalence classes: for a roster with
\* unique usernames, the caller is in its own set, and every name b in
\* sharedUsernames(a) has sharedUsernames(b) equal, as a set, to
\* sharedUsernames(a) (so membership is reflexive, symmetric and transitive).
C12_EquivalenceClasses ==
    (visPc = "returned" /\ UniqueUsernames(Users))
    => /\ visCaller \in Range(visResult)
       /\ \A b \in CallerNames :
              b \in Range(visResult)
              => Range(sharedUsernames(b)) = Range(visResult)

\* carol's set in a roster where alice shares her group and bob has another.
C12_Witness ==
    /\ visPc = "returned" /\ visCaller = "carol"
    /\ UniqueUsernames(Users) /\ Len(Users) = 3
    /\ visResult = <<"alice", "carol">>
    /\ sharedUsernames("alice") = visResult
    /\ lookupGroup(Users, "bob", 1) \notin {"", lookupGroup(Users, "carol", 1)}
    /\ sharedUsernames("bob") = <<"bob">>

----------------------------------------------------------------------------
(* todo-list handlers: handler.go (getStores, getItems, buildPlaceholders)  *)
(* and the store and item handlers CreateStore .. storeAccessible           *)

\* The authenticated callers of the protected routes: the roster names and a
\* name no roster holds.
TodoCallers == RosterNames \cup {"dave"}

\* Form values of the name field: missing or given.
FormNames == {"", "milk"}

\* Rosters the todo-list process is started with: the end-to-end roster, one
\* with two groups, and one that names alice twice.
TodoRosters ==
    { ExampleRoster,
      << [Username |-> "alice", ShareGroup |-> "household"],
         [Username |-> "bob",   ShareGroup |-> "work"],
         [Username |-> "carol", ShareGroup |-> "work"] >>,
      << [Username |-> "alice", ShareGroup |-> "household"],
         [Username |-> "alice", ShareGroup |-> "work"],
         [Username |-> "bob",   ShareGroup |-> "work"] >> }

\* Mutant: one placeholder whatever the count.
buildPlaceholdersSingle(count) == <<"?">>

\* buildPlaceholders (272-282): "?" for a count <= 0, else count times "?"
\* joined by ","; the text as the sequence of its pieces.
buildPlaceholders(count) ==
    IF count <= 0 THEN <<"?">>
    ELSE [k \in 1..(2 * count - 1) |-> IF k % 2 = 1 THEN "?" ELSE ","]

\* The number of "?" in a statement text.
countPlaceholders(text) == Cardinality({k \in DOMAIN text : text[k] = "?"})

\* fmt.Sprintf(format, placeholders) with one %s in the format.
Sprintf(before, placeholders, after) == before \o placeholders \o after

\* The id of the URL (chi.URLParam), bound as text.
URLParam(id) == Decimal(id)

\* toInterfaceSlice (284-290): one bound argument per value, in order.
toInterfaceSlice(values) == [i \in 1..Len(values) |-> values[i]]

\* A statement with "?" placeholders bound to args: the driver rejects it
\* when the counts differ; with "username IN (?, ..., ?)" a row matches when
\* its username equals one of the arguments bound to the list.
BindError(text, args) == countPlaceholders(text) # Len(args)
usernameIn(username, args) == \E k \in DOMAIN args : args[k] = username

\* The owner-filtered statements as the handlers build them: the text and the
\* bound arguments.
storesQuery(sharedUsers) ==
    [text |-> Sprintf(<<"SELECT id, name, color FROM stores WHERE username IN (">>,
                      buildPlaceholders(Len(sharedUsers)),
                      <<") ORDER BY name">>),
     args |-> toInterfaceSlice(sharedUsers)]

deleteStoreStmt(storeID, sharedUsers) ==
    [text |-> Sprintf(<<"DELETE FROM stores WHERE id = ", "?", " AND username IN (">>,
                      buildPlaceholders(Len(sharedUsers)), <<")">>),
     args |-> <<URLParam(storeID)>> \o toInterfaceSlice(sharedUsers)]

storeAccessibleQuery(storeID, sharedUsers) ==
    [text |-> Sprintf(<<"SELECT COUNT(*) FROM stores WHERE id = ", "?",
                        " AND username IN (">>,
                      buildPlaceholders(Len(sharedUsers)), <<")">>),
     args |-> <<URLParam(storeID)>> \o toInterfaceSlice(sharedUsers)]

toggleItemStmt(itemID, sharedUsers) ==
    [text |-> Sprintf(<<"UPDATE items SET checked = NOT checked WHERE id = ", "?",
                        " AND store_id IN (SELECT id FROM stores WHERE username IN (">>,
                      buildPlaceholders(Len(sharedUsers)), <<"))">>),
     args |-> <<URLParam(itemID)>> \o toInterfaceSlice(sharedUsers)]

deleteItemStmt(itemID, sharedUsers) ==
    [text |-> Sprintf(<<"DELETE FROM items WHERE id = ", "?",
                        " AND store_id IN (SELECT id FROM stores WHERE username IN (">>,
                      buildPlaceholders(Len(sharedUsers)), <<"))">>),
     args |-> <<URLParam(itemID)>> \o toInterfaceSlice(sharedUsers)]

\* h.DB as the handlers read it: the rows of the two tables.
DB == [stores |-> stores, items |-> items]

\* getItems (215-239): ORDER BY checked ASC, created_at DESC; rows created
\* later carry the larger id.
itemRank(it) == (IF it.checked THEN MaxItems + 1 ELSE 0) + (MaxItems + 1 - it.id)

RECURSIVE orderItems(_)
orderItems(S) ==
    IF S = {} THEN <<>>
    ELSE LET m == CHOOSE x \in S : \A y \in S : itemRank(x) <= itemRank(y)
         IN  <<[ID |-> m.id, Name |-> m.name, Checked |-> m.checked,
                Username |-> m.username]>> \o orderItems(S \ {m})

getItems(db, storeID) == orderItems({it \in db.items : it.store_id = storeID})

\* ORDER BY name: the names of the model tie, rows come in rowid order.
RECURSIVE orderStores(_, _)
orderStores(db, S) ==
    IF S = {} THEN <<>>
    ELSE LET m == CHOOSE x \in S : \A y \in S : x.id <= y.id
         IN  <<[ID |-> m.id, Name |-> m.name, Items |-> getItems(db, m.id)]>>
                 \o orderStores(db, S \ {m})

\* Mutant: the owner predicate binds the caller's own name only.
getStoresOwnOnly(db, username) ==
    orderStores(db, {s \in db.stores : s.username = username})

\* getStores (187-213): the stores whose username is IN the bound visibility
\* set, each with its items; a failed query returns no stores.
getStores(db, username) ==
    LET sharedUsers == sharedUsernames(username)
        q == storesQuery(sharedUsers)
    IN  IF BindError(q.text, q.args) THEN <<>>
        ELSE orderStores(db, {s \in db.stores : usernameIn(s.username, q.args)})

\* storeAccessible (494-505): SELECT COUNT(*) FROM stores WHERE id = ? AND
\* username IN (...) > 0.
storeAccessible(storeID, sharedUsers) ==
    LET q == storeAccessibleQuery(storeID, sharedUsers)
    IN  /\ ~BindError(q.text, q.args)
        /\ Cardinality({s \in stores :
               s.id = storeID /\ usernameIn(s.username, Tail(q.args))}) > 0

\* The rows ToggleItem and DeleteItem address: id = ? AND store_id IN
\* (SELECT id FROM stores WHERE username IN (...)); none when the driver
\* rejects the statement q.
itemsInSharedStores(itemID, q) ==
    IF BindError(q.text, q.args) THEN {}
    ELSE {it \in items :
            /\ it.id = itemID
            /\ \E s \in stores :
                   s.id = it.store_id /\ usernameIn(s.username, Tail(q.args))}

\* FOREIGN KEY (store_id) REFERENCES stores(id) ON DELETE CASCADE, with
\* _foreign_keys=on: the items of the deleted stores go with them.
cascadeItems(deleted) ==
    {it \in items : \A s \in deleted : it.store_id # s.id}

\* storesGrid(getStores(username)): the grid a response renders.
Grid(username, rendered) ==
    [grid |-> TRUE, caller |-> username, stores |-> rendered]

\* The error branch shared by the handlers (`if err != nil { http.Error(w,
\* ..., 500); return }`): the statement failed, no row changed.
ExecFails ==
    /\ resp' = OtherBody
    /\ UNCHANGED <<stores, items, nextStoreID, nextItemID>>
    /\ UNCHANGED <<migVars, Users, visVars, projVars, mainVars, authVars, inflight>>

\* CreateStore (281-307): name check (400), INSERT INTO stores, then the
\* HX-Redirect header.
CreateStore(username, name) ==
    /\ nextStoreID <= MaxStores
    /\ IF name = ""
       THEN UNCHANGED <<stores, nextStoreID>>
       ELSE /\ stores' = stores \cup
                   {[id |-> nextStoreID, name |-> name, username |-> username]}
            /\ nextStoreID' = nextStoreID + 1
    /\ resp' = OtherBody
    /\ UNCHANGED <<items, nextItemID>>
    /\ UNCHANGED <<migVars, Users, visVars, projVars, mainVars, authVars, inflight>>

\* Mutant: the pre-sharing handler without owner filter, DELETE ... WHERE id = ?.
DeleteStoreAnyOwner(username, storeID) ==
    /\ UNCHANGED <<nextStoreID, nextItemID>>
    /\ UNCHANGED <<migVars, Users, visVars, projVars, mainVars, authVars, inflight>>
    /\ stores' = {s \in stores : s.id # storeID}
    /\ items' = cascadeItems({s \in stores : s.id = storeID})
    /\ resp' = Grid(username,
           getStores([stores |-> {s \in stores : s.id # storeID},
                      items |-> cascadeItems({s \in stores : s.id = storeID})],
                     username))

\* DeleteStore (310-330): DELETE FROM stores WHERE id = ? AND username IN
\* (...); the response is the caller's refreshed stores grid.
DeleteStore(username, storeID) ==
    LET sharedUsers == sharedUsernames(username)
        q == deleteStoreStmt(storeID, sharedUsers)
        deleted == {s \in stores :
                       s.id = storeID /\ usernameIn(s.username, Tail(q.args))}
    IN  /\ UNCHANGED <<nextStoreID, nextItemID>>
        /\ UNCHANGED <<migVars, Users, visVars, projVars, mainVars, authVars, inflight>>
        /\ IF BindError(q.text, q.args)
           THEN /\ UNCHANGED <<stores, items>>
                /\ resp' = OtherBody
           ELSE /\ stores' = stores \ deleted
                /\ items' = cascadeItems(deleted)
                /\ resp' = Grid(username,
                       getStores([stores |-> stores \ deleted,
                                  items |-> cascadeItems(deleted)], username))

\* CreateItem (357-407): name check (400), access check (404), INSERT INTO
\* items, then the new item's fragment.
CreateItem(username, storeID, name) ==
    LET sharedUsers == sharedUsernames(username)
    IN  /\ nextItemID <= MaxItems
        /\ IF name = "" \/ ~storeAccessible(storeID, sharedUsers)
           THEN UNCHANGED <<items, nextItemID>>
           ELSE /\ items' = items \cup
                       {[id |-> nextItemID, store_id |-> storeID, name |-> name,
                         username |-> username, checked |-> FALSE]}
                /\ nextItemID' = nextItemID + 1
        /\ resp' = OtherBody
        /\ UNCHANGED <<stores, nextStoreID>>
        /\ UNCHANGED <<migVars, Users, visVars, projVars, mainVars, authVars, inflight>>

\* Mutant: the pre-sharing handler, UPDATE ... WHERE id = ? AND username = ?.
ToggleItemOwnItems(username, itemID) ==
    LET hit == {it \in items : it.id = itemID /\ it.username = username}
    IN  /\ items' = (items \ hit)
                \cup {[it EXCEPT !.checked = ~it.checked] : it \in hit}
        /\ resp' = OtherBody
        /\ UNCHANGED <<stores, nextStoreID, nextItemID>>
        /\ UNCHANGED <<migVars, Users, visVars, projVars, mainVars, authVars, inflight>>

\* ToggleItem (410-470): UPDATE items SET checked = NOT checked for the item
\* inside a shared store, then the item's fragment (404 when the re-read
\* through the same filter finds no row).
ToggleItem(username, itemID) ==
    LET sharedUsers == sharedUsernames(username)
        hit == itemsInSharedStores(itemID, toggleItemStmt(itemID, sharedUsers))
    IN  /\ items' = (items \ hit)
                \cup {[it EXCEPT !.checked = ~it.checked] : it \in hit}
        /\ resp' = OtherBody
        /\ UNCHANGED <<stores, nextStoreID, nextItemID>>
        /\ UNCHANGED <<migVars, Users, visVars, projVars, mainVars, authVars, inflight>>

\* DeleteItem (473-492): DELETE FROM items for the item inside a shared store.
DeleteItem(username, itemID) ==
    LET sharedUsers == sharedUsernames(username)
        hit == itemsInSharedStores(itemID, deleteItemStmt(itemID, sharedUsers))
    IN  /\ items' = items \ hit
        /\ resp' = OtherBody
        /\ UNCHANGED <<stores, nextStoreID, nextItemID>>
        /\ UNCHANGED <<migVars, Users, visVars, projVars, mainVars, authVars, inflight>>

\* Home (85-103): renders the grid of getStores(username).
Home(username) ==
    /\ resp' = Grid(username, getStores(DB, username))
    /\ UNCHANGED <<stores, items, nextStoreID, nextItemID>>
    /\ UNCHANGED <<migVars, Users, visVars, projVars, mainVars, authVars, inflight>>

InitTodo ==
    /\ active = {}
    /\ MigIdle
    /\ Users \in TodoRosters
    /\ VisIdle
    /\ TodoIdle
    /\ ProjIdle
    /\ MainIdle
    /\ AuthIdle

NextTodo ==
    \/ \E c \in TodoCallers, name \in FormNames : CreateStore(c, name)
    \/ \E c \in TodoCallers, id \in 1..MaxStores : DeleteStore(c, id)
    \/ \E c \in TodoCallers, id \in 1..MaxStores, name \in FormNames :
          CreateItem(c, id, name)
    \/ \E c \in TodoCallers, id \in 1..MaxItems : ToggleItem(c, id)
    \/ \E c \in TodoCallers, id \in 1..MaxItems : DeleteItem(c, id)
    \/ \E c \in TodoCallers : Home(c)
    \/ ExecFails

SpecTodo == InitTodo /\ [][NextTodo]_vars

----------------------------------------------------------------------------
(* CreateItem as the two statements it sends to the store, with the other   *)
(* requests of the process served in between (net/http runs every request   *)
(* in its own goroutine; the store serializes single statements only)       *)

\* A CreateItem request between its two statements, or answered.
ItemRequest(username, storeID, name, at, status) ==
    [username |-> username, storeID |-> storeID, name |-> name,
     at |-> at, status |-> status]

\* CreateItem (357-379): the name check (400) and storeAccessible (404); the
\* request that passes goes on to the insert.
CreateItemCheck(username, storeID, name) ==
    LET sharedUsers == sharedUsernames(username)
    IN  /\ nextItemID <= MaxItems
        /\ "at" \in DOMAIN inflight => inflight.at = "done"
        /\ IF name = ""
           THEN /\ inflight' = ItemRequest(username, storeID, name, "done", 400)
                /\ resp' = OtherBody
           ELSE IF ~storeAccessible(storeID, sharedUsers)
           THEN /\ inflight' = ItemRequest(username, storeID, name, "done", 404)
                /\ resp' = OtherBody
           ELSE /\ inflight' = ItemRequest(username, storeID, name, "insert", 0)
                /\ UNCHANGED resp
        /\ UNCHANGED <<stores, items, nextStoreID, nextItemID>>
        /\ UNCHANGED <<migVars, Users, visVars, projVars, mainVars, authVars>>

\* Mutant: the store opened without _foreign_keys=on, the insert unchecked.
CreateItemInsertNoForeignKeys(ok) ==
    /\ "at" \in DOMAIN inflight
    /\ inflight.at = "insert"
    /\ IF ok
       THEN /\ items' = items \cup
                   {[id |-> nextItemID, store_id |-> inflight.storeID,
                     name |-> inflight.name, username |-> inflight.username,
                     checked |-> FALSE]}
            /\ nextItemID' = nextItemID + 1
            /\ inflight' = [inflight EXCEPT !.at = "done", !.status = 200]
       ELSE /\ inflight' = [inflight EXCEPT !.at = "done", !.status = 500]
            /\ UNCHANGED <<items, nextItemID>>
    /\ resp' = OtherBody
    /\ UNCHANGED <<stores, nextStoreID>>
    /\ UNCHANGED <<migVars, Users, visVars, projVars, mainVars, authVars>>

\* CreateItem (381-407): INSERT INTO items (store_id, name, quantity,
\* username); the store refuses the row when store_id names no store
\* (FOREIGN KEY with _foreign_keys=on) or fails (ok = FALSE): 500 and no
\* row; else the new item's fragment.
CreateItemInsert(ok) ==
    /\ "at" \in DOMAIN inflight
    /\ inflight.at = "insert"
    /\ IF ok /\ \E s \in stores : s.id = inflight.storeID
       THEN /\ items' = items \cup
                   {[id |-> nextItemID, store_id |-> inflight.storeID,
                     name |-> inflight.name, username |-> inflight.username,
                     checked |-> FALSE]}
            /\ nextItemID' = nextItemID + 1
            /\ inflight' = [inflight EXCEPT !.at = "done", !.status = 200]
       ELSE /\ inflight' = [inflight EXCEPT !.at = "done", !.status = 500]
            /\ UNCHANGED <<items, nextItemID>>
    /\ resp' = OtherBody
    /\ UNCHANGED <<stores, nextStoreID>>
    /\ UNCHANGED <<migVars, Users, visVars, projVars, mainVars, authVars>>

NextItemRace ==
    \/ \E c \in TodoCallers, name \in FormNames : CreateStore(c, name)
    \/ \E c \in TodoCallers, id \in 1..MaxStores : DeleteStore(c, id)
    \/ \E c \in TodoCallers, id \in 1..MaxStores, name \in FormNames :
          CreateItemCheck(c, id, name)
    \/ \E ok \in BOOLEAN : CreateItemInsert(ok)
    \/ \E c \in TodoCallers, id \in 1..MaxItems : DeleteItem(c, id)

SpecItemRace == InitTodo /\ [][NextItemRace]_vars

----------------------------------------------------------------------------
(* Properties of the todo-list handlers, checked under SpecTodo *)

\* The caller's visibility set.
Vis(c) == Range(sharedUsernames(c))

\* Owner of the store an item belongs to.
StoreOwner(it) == (CHOOSE s \in stores : s.id = it.store_id).username

\* Ids of the stores owned inside the caller's visibility set, and of the
\* items of those stores.
AccessibleStores(c) == {s.id : s \in {x \in stores : x.username \in Vis(c)}}
AccessibleItems(c) ==
    {it.id : it \in {x \in items : x.store_id \in AccessibleStores(c)}}

\* Every store or item row the step changed or deleted lies inside the
\* caller's visibility set: a store by its username, an item by the username
\* of its store and, when the roster names nobody twice, by its own username.
TouchedRowsVisibleTo(c) ==
    /\ \A s \in stores \ stores' : s.username \in Vis(c)
    /\ \A it \in items \ items' :
           /\ StoreOwner(it) \in Vis(c)
           /\ UniqueUsernames(Users) => it.username \in Vis(c)
    /\ \A s \in stores' \ stores : s.username = c
    /\ \A it \in items' \ items :
           \/ it.store_id \in AccessibleStores(c) /\ it.username = c
           \/ \E old \in items \ items' : old.id = it.id

\* The five mutating requests of caller c, and those aimed at one store or
\* one item.
RequestBy(c) ==
    \/ \E name \in FormNames : CreateStore(c, name)
    \/ \E id \in 1..MaxStores : DeleteStore(c, id)
    \/ \E id \in 1..MaxStores, name \in FormNames : CreateItem(c, id, name)
    \/ \E id \in 1..MaxItems : ToggleItem(c, id) \/ DeleteItem(c, id)

StoreRequestBy(c, id) ==
    DeleteStore(c, id) \/ \E name \in FormNames : CreateItem(c, id, name)

ItemRequestBy(c, id) == ToggleItem(c, id) \/ DeleteItem(c, id)

\* C9 -- A record is mutable by a request only if its owner is in the
\* requester's visibility set: every store or item row that a CreateStore,
\* DeleteStore, CreateItem, ToggleItem or DeleteItem request by caller c
\* changed or deleted has an owner username in sharedUsernames(c), and a
\* request that targets any other store or item leaves the tables unchanged.
\* (Stated by contraposition: a step that touches a row outside the
\* visibility set of c is no request by c, and a step that changes a table
\* is no request by c aimed at a store or item outside that set.)
C9_MutableOnlyIfVisible ==
    [][\A c \in TodoCallers :
         /\ ~TouchedRowsVisibleTo(c) => ~RequestBy(c)
         /\ \A id \in 1..MaxStores :
                (<<stores, items>>' # <<stores, items>>
                     /\ id \notin AccessibleStores(c))
                => ~StoreRequestBy(c, id)
         /\ \A id \in 1..MaxItems :
                (<<stores, items>>' # <<stores, items>>
                     /\ id \notin AccessibleItems(c))
                => ~ItemRequestBy(c, id)
      ]_vars

\* bob has added an item to a store of alice, the item was toggled, and
\* another store was deleted.
C9_Witness ==
    /\ Users = ExampleRoster
    /\ nextStoreID - 1 > Cardinality(stores)
    /\ \E s \in stores, it \in items :
           /\ s.username = "alice" /\ it.store_id = s.id
           /\ it.username = "bob" /\ it.checked

StoreIDs(rendered) == {rendered[k].ID : k \in DOMAIN rendered}

\* C10 -- End-to-end visibility: the grid getStores returns for caller c
\* holds exactly the stores whose owner username is in sharedUsernames(c),
\* each once; with the roster [alice:household, bob:household, carol], a
\* store created by alice is in bob's grid and not in carol's.
C10_GetStoresVisibility ==
    resp.grid
    => /\ StoreIDs(resp.stores)
             = {s.id : s \in {x \in stores : x.username \in Vis(resp.caller)}}
       /\ NoDuplicates([k \in DOMAIN resp.stores |-> resp.stores[k].ID])
       /\ Users = ExampleRoster
          => \A s \in stores :
                 s.username = "alice"
                 => /\ resp.caller = "bob" => s.id \in StoreIDs(resp.stores)
                    /\ resp.caller = "carol" => s.id \notin StoreIDs(resp.stores)

C10_Witness ==
    /\ Users = ExampleRoster
    /\ resp.grid /\ resp.caller = "bob"
    /\ \E s \in stores : s.username = "alice" /\ s.id \in StoreIDs(resp.stores)

\* The rows a step inserted, changed or deleted, and the usernames on them
\* (an item row carries its own username and lies in a store with an owner).
TouchedStores == (stores \ stores') \cup (stores' \ stores)
TouchedItems == (items \ items') \cup (items' \ items)
TouchedOwners ==
    {s.username : s \in TouchedStores}
        \cup {it.username : it \in TouchedItems}
        \cup {StoreOwner(it) : it \in TouchedItems}

\* The usernames on the rows a grid shows.
GridOwners(rendered) ==
    {s.username : s \in {x \in stores : x.id \in StoreIDs(rendered)}}
        \cup UNION {{rendered[k].Items[j].Username : j \in DOMAIN rendered[k].Items}
                       : k \in DOMAIN rendered}

\* What a request by c may touch or be shown: its own rows only when c is
\* not in the roster, rows of roster members only when it is.
TenantOf(c) == IF InRoster(c) THEN {m \in TodoCallers : InRoster(m)} ELSE {c}

\* C13 -- An unknown caller never causes a cross-tenant leak: for a caller u
\* that is not in the roster sharedUsernames(u) is [u] and u is in no roster
\* member's visibility set; every grid rendered for u shows only rows owned
\* by u and every request by u inserts, changes or deletes only rows owned by
\* u; grids rendered for roster members show, and their requests touch, no
\* row owned by an unknown caller.
C13_UnknownCallerNoLeak ==
    /\ [](\A u \in TodoCallers :
             ~InRoster(u)
             => /\ sharedUsernames(u) = <<u>>
                /\ \A m \in TodoCallers : InRoster(m) => u \notin Vis(m))
    /\ [](resp.grid => GridOwners(resp.stores) \subseteq TenantOf(resp.caller))
    /\ [][\A c \in TodoCallers :
             ~(TouchedOwners \subseteq TenantOf(c)) => ~RequestBy(c)]_vars

\* dave, unknown to the roster, is shown his own store and item while alice
\* owns a store too.
C13_Witness ==
    /\ Users = ExampleRoster
    /\ resp.grid /\ resp.caller = "dave" /\ Len(resp.stores) = 1
    /\ Len(resp.stores[1].Items) = 1
    /\ \E s \in stores : s.username = "alice"

\* The five owner-filtered statements a request of caller c for row id builds.
OwnerFilteredStatements(c, id) ==
    LET sharedUsers == sharedUsernames(c)
    IN  { [q |-> storesQuery(sharedUsers), ids |-> 0],
          [q |-> deleteStoreStmt(id, sharedUsers), ids |-> 1],
          [q |-> storeAccessibleQuery(id, sharedUsers), ids |-> 1],
          [q |-> toggleItemStmt(id, sharedUsers), ids |-> 1],
          [q |-> deleteItemStmt(id, sharedUsers), ids |-> 1] }

\* C19 -- Each owner-filtered statement of todo-list (getStores, DeleteStore,
\* storeAccessible, ToggleItem, DeleteItem) is parameterized with exactly the
\* visibility set: the number of "?" that buildPlaceholders puts in the
\* IN (...) list equals the number of usernames bound as arguments, which is
\* the length of sharedUsernames(caller); the bound usernames are that list,
\* the driver accepts the statement, and no piece of the statement text is a
\* username.
C19_ParameterizedWithVisibilitySet ==
    \A c \in TodoCallers, id \in 1..MaxStores :
        LET sharedUsers == sharedUsernames(c)
        IN  /\ countPlaceholders(buildPlaceholders(Len(sharedUsers)))
                 = Len(sharedUsers)
            /\ \A s \in OwnerFilteredStatements(c, id) :
                   LET bound == SubSeq(s.q.args, s.ids + 1, Len(s.q.args))
                   IN  /\ bound = sharedUsers
                       /\ countPlaceholders(s.q.text) = s.ids + Len(bound)
                       /\ ~BindError(s.q.text, s.q.args)
                       /\ \A k \in DOMAIN s.q.text : s.q.text[k] \notin TodoCallers

\* A grid rendered for bob, whose statement carries two placeholders bound to
\* bob and carol, showing a store of carol after another store was deleted.
C19_Witness ==
    /\ sharedUsernames("bob") = <<"bob", "carol">>
    /\ countPlaceholders(storesQuery(sharedUsernames("bob")).text) = 2
    /\ resp.grid /\ resp.caller = "bob"
    /\ \E s \in stores : s.username = "carol" /\ s.id \in StoreIDs(resp.stores)
    /\ nextStoreID - 1 > Cardinality(stores)

\* C30 -- CreateItem against a concurrent DeleteStore: under any
\* interleaving of the access check and the insert of a CreateItem request
\* with DeleteStore requests for the same store, no state holds an item
\* whose store_id names a store that does not exist, and no item is inserted
\* into a store whose owner is outside the creator's visibility set.
C30_NoOrphanNoForeignInsert ==
    /\ [](\A it \in items : \E s \in stores : s.id = it.store_id)
    /\ [][\A n \in items' \ items :
             \E s \in stores :
                 /\ s.id = n.store_id
                 /\ s.username \in Range(sharedUsernames(n.username))]_vars

\* The access check of a request passed, the store was
\* deleted before the insert, and the insert was refused: no row was added.
C30_Witness ==
    /\ "at" \in DOMAIN inflight
    /\ inflight.at = "done" /\ inflight.status = 500
    /\ nextStoreID > inflight.storeID
    /\ \A s \in stores : s.id # inflight.storeID
    /\ items = {} /\ nextItemID = 1

----------------------------------------------------------------------------
(* The projects app: apps/projects/handlers/projects.go *)

\* The authenticated callers of the protected routes of the model: two
\* roster names.
ProjCallers == {"alice", "bob"}

\* Stages, the option list of the forms (the handlers store any form value).
Stages == <<"idea", "planning", "development", "released", "archived">>

\* Form values of the stage field used by the requests of the model.
StageValues == {Stages[1], Stages[4]}

\* Submitted project forms: one without a name, two with different fields
\* (is_commercial = (r.FormValue("is_commercial") == "on"), and so on).
ProjForms ==
    { [short_name |-> "", is_commercial |-> FALSE, is_open_source |-> FALSE,
       is_public |-> FALSE, stage |-> "idea", rating |-> 0],
      [short_name |-> "tool", is_commercial |-> FALSE, is_open_source |-> TRUE,
       is_public |-> FALSE, stage |-> "idea", rating |-> 0],
      [short_name |-> "shop", is_commercial |-> TRUE, is_open_source |-> FALSE,
       is_public |-> TRUE, stage |-> "released", rating |-> 3] }

\* Query strings of Home: ?stage=&type=&rating=.
HomeFilters ==
    { [stage |-> "", type |-> "", rating |-> 0],
      [stage |-> "idea", type |-> "open-source", rating |-> 0],
      [stage |-> "", type |-> "commercial", rating |-> 3] }

\* Form values of the note field: missing or given.
FormNotes == {"", "note"}

\* h.DB as the projects handlers read it.
PDB == [projects |-> projects, logEntries |-> logEntries, projOrder |-> projOrder]

\* The row an INSERT or UPDATE writes from a form.
projectRow(id, username, form) ==
    [id |-> id, username |-> username, short_name |-> form.short_name,
     is_commercial |-> form.is_commercial, is_open_source |-> form.is_open_source,
     is_public |-> form.is_public, stage |-> form.stage, rating |-> form.rating]

\* SET updated_at = CURRENT_TIMESTAMP for the rows with the ids in hit: they
\* become the latest, in front of the others.
touch(order, hit) ==
    SelectSeq(order, LAMBDA i : i \in hit) \o SelectSeq(order, LAMBDA i : i \notin hit)

\* Mutant: the type condition is never added to the query.
getProjectsNoType(db, username, stageFilter, typeFilter, ratingFilter) ==
    LET match(p) ==
            /\ p.username = username
            /\ stageFilter # "" => p.stage = stageFilter
            /\ ratingFilter > 0 => p.rating = ratingFilter
        rowOf(i) == CHOOSE p \in db.projects : p.id = i
        ids == SelectSeq(db.projOrder,
                   LAMBDA i : \E p \in db.projects : p.id = i /\ match(p))
    IN  [k \in DOMAIN ids |-> rowOf(ids[k])]

\* getProjects (18-61): WHERE username = ? with the optional stage, type and
\* rating conditions, ORDER BY updated_at DESC.
getProjects(db, username, stageFilter, typeFilter, ratingFilter) ==
    LET match(p) ==
            /\ p.username = username
            /\ stageFilter # "" => p.stage = stageFilter
            /\ CASE typeFilter = "commercial" -> p.is_commercial
                 [] typeFilter = "open-source" -> p.is_open_source
                 [] typeFilter = "public" -> p.is_public
                 [] OTHER -> TRUE
            /\ ratingFilter > 0 => p.rating = ratingFilter
        rowOf(i) == CHOOSE p \in db.projects : p.id = i
        ids == SelectSeq(db.projOrder,
                   LAMBDA i : \E p \in db.projects : p.id = i /\ match(p))
    IN  [k \in DOMAIN ids |-> rowOf(ids[k])]

\* getProject (64-78): WHERE id = ? AND username = ?; sql.ErrNoRows when no
\* row matches, modelled as the empty set of rows.
getProject(db, id, username) ==
    {p \in db.projects : p.id = id /\ p.username = username}

\* A log_entries row as getLogEntries scans it, with its Children.
LogEntry(e, children) ==
    [ID |-> e.id, ProjectID |-> e.project_id, ParentID |-> e.parent_id,
     Username |-> e.username, Note |-> e.note, Children |-> children]

\* ORDER BY created_at DESC: rows created later carry the larger id.
RECURSIVE latestFirst(_)
latestFirst(S) ==
    IF S = {} THEN <<>>
    ELSE LET m == CHOOSE x \in S : \A y \in S : x.id >= y.id
         IN  <<m>> \o latestFirst(S \ {m})

\* getLogEntries (257-299): the rows WHERE project_id = ? AND username = ?;
\* the rows without parent are the roots, and each root gets as Children the
\* rows whose parent_id is its id.
getLogEntries(db, projectID, username) ==
    LET all == latestFirst({e \in db.logEntries :
                   e.project_id = projectID /\ e.username = username})
        roots == SelectSeq(all, LAMBDA e : e.parent_id = 0)
        childrenOf(id) == SelectSeq(all, LAMBDA e : e.parent_id = id)
        leaf(cs) == [k \in DOMAIN cs |-> LogEntry(cs[k], <<>>)]
    IN  [k \in DOMAIN roots |-> LogEntry(roots[k], leaf(childrenOf(roots[k].id)))]

\* ON DELETE CASCADE of parent_id: the rows below deleted rows go with them,
\* level by level. E holds the rows left, gone the ids just deleted.
RECURSIVE cascadeDelete(_, _)
cascadeDelete(E, gone) ==
    LET below == {e \in E : e.parent_id \in gone}
    IN  IF below = {} THEN E
        ELSE cascadeDelete(E \ below, {e.id : e \in below})

\* ON DELETE CASCADE of project_id, then of parent_id.
cascadeProjects(E, deleted) ==
    LET first == {e \in E : \E p \in deleted : e.project_id = p.id}
    IN  cascadeDelete(E \ first, {e.id : e \in first})

\* Response bodies of the projects handlers.
ProjectsTable(username, rows) ==
    [grid |-> FALSE, kind |-> "projects", caller |-> username, rows |-> rows]

DetailPage(username, p, entries) ==
    [grid |-> FALSE, kind |-> "detail", caller |-> username, rows |-> <<p>>,
     entries |-> entries]

ProjectForm(username, p) ==
    [grid |-> FALSE, kind |-> "form", caller |-> username, rows |-> <<p>>]

Timeline(username, projectID, entries) ==
    [grid |-> FALSE, kind |-> "timeline", caller |-> username,
     project |-> projectID, rows |-> <<>>, entries |-> entries]

\* Home of the projects app (81-105): the table of getProjects.
ProjectsHome(username, f) ==
    /\ resp' = ProjectsTable(username,
           getProjects(PDB, username, f.stage, f.type, f.rating))
    /\ UNCHANGED projVars
    /\ UNCHANGED <<migVars, Users, visVars, stores, items, nextStoreID,
                   nextItemID, mainVars, authVars, inflight>>

\* CreateProject (113-145): name check (400), INSERT INTO projects under the
\* caller's name, then the HX-Redirect header.
CreateProject(username, form) ==
    /\ nextProjectID <= MaxProjects
    /\ IF form.short_name = ""
       THEN UNCHANGED <<projects, projOrder, nextProjectID>>
       ELSE /\ projects' = projects \cup {projectRow(nextProjectID, username, form)}
            /\ projOrder' = <<nextProjectID>> \o projOrder
            /\ nextProjectID' = nextProjectID + 1
    /\ resp' = OtherBody
    /\ UNCHANGED <<logEntries, nextLogID>>
    /\ UNCHANGED <<migVars, Users, visVars, stores, items, nextStoreID,
                   nextItemID, mainVars, authVars, inflight>>

\* EditProjectForm (148-159): getProject, 404 or the form filled from the row.
EditProjectForm(username, id) ==
    LET found == getProject(PDB, id, username)
    IN  /\ resp' = IF found = {} THEN OtherBody
                   ELSE ProjectForm(username, CHOOSE p \in found : TRUE)
        /\ UNCHANGED projVars
        /\ UNCHANGED <<migVars, Users, visVars, stores, items, nextStoreID,
                       nextItemID, mainVars, authVars, inflight>>

\* UpdateProject (162-196): name check (400), UPDATE projects SET ... WHERE
\* id = ? AND username = ?, then the HX-Redirect header.
UpdateProject(username, id, form) ==
    LET hit == {p \in projects : p.id = id /\ p.username = username}
    IN  /\ IF form.short_name = ""
           THEN UNCHANGED <<projects, projOrder>>
           ELSE /\ projects' = (projects \ hit)
                       \cup {projectRow(p.id, p.username, form) : p \in hit}
                /\ projOrder' = touch(projOrder, {p.id : p \in hit})
        /\ resp' = OtherBody
        /\ UNCHANGED <<logEntries, nextProjectID, nextLogID>>
        /\ UNCHANGED <<migVars, Users, visVars, stores, items, nextStoreID,
                       nextItemID, mainVars, authVars, inflight>>

\* UpdateProjectStage (199-214): UPDATE projects SET stage = ? WHERE id = ?
\* AND username = ?.
UpdateProjectStage(username, id, stage) ==
    LET hit == {p \in projects : p.id = id /\ p.username = username}
    IN  /\ projects' = (projects \ hit) \cup {[p EXCEPT !.stage = stage] : p \in hit}
        /\ projOrder' = touch(projOrder, {p.id : p \in hit})
        /\ resp' = OtherBody
        /\ UNCHANGED <<logEntries, nextProjectID, nextLogID>>
        /\ UNCHANGED <<migVars, Users, visVars, stores, items, nextStoreID,
                       nextItemID, mainVars, authVars, inflight>>

\* Mutant: the store without foreign keys enforced, only the project row goes.
DeleteProjectNoCascade(username, id) ==
    LET deleted == {p \in projects : p.id = id /\ p.username = username}
    IN  /\ projects' = projects \ deleted
        /\ projOrder' = SelectSeq(projOrder, LAMBDA i : \A p \in deleted : p.id # i)
        /\ resp' = OtherBody
        /\ UNCHANGED <<logEntries, nextProjectID, nextLogID>>
        /\ UNCHANGED <<migVars, Users, visVars, stores, items, nextStoreID,
                       nextItemID, mainVars, authVars, inflight>>

\* DeleteProject (217-228): DELETE FROM projects WHERE id = ? AND username =
\* ?; the log entries of the project go with it.
DeleteProject(username, id) ==
    LET deleted == {p \in projects : p.id = id /\ p.username = username}
    IN  /\ projects' = projects \ deleted
        /\ logEntries' = cascadeProjects(logEntries, deleted)
        /\ projOrder' = SelectSeq(projOrder, LAMBDA i : \A p \in deleted : p.id # i)
        /\ resp' = OtherBody
        /\ UNCHANGED <<nextProjectID, nextLogID>>
        /\ UNCHANGED <<migVars, Users, visVars, stores, items, nextStoreID,
                       nextItemID, mainVars, authVars, inflight>>

\* ProjectDetail (231-252): getProject, 404 or the page with the timeline of
\* getLogEntries.
ProjectDetail(username, id) ==
    LET found == getProject(PDB, id, username)
    IN  /\ resp' = IF found = {} THEN OtherBody
                   ELSE DetailPage(username, CHOOSE p \in found : TRUE,
                                   getLogEntries(PDB, id, username))
        /\ UNCHANGED projVars
        /\ UNCHANGED <<migVars, Users, visVars, stores, items, nextStoreID,
                       nextItemID, mainVars, authVars, inflight>>

\* The tail shared by CreateLogEntry and CreateLogReply: INSERT INTO
\* log_entries (500 when a foreign key names no row), UPDATE projects SET
\* updated_at WHERE id = ?, then the caller's timeline of the project.
insertLogEntry(username, projectID, parentID, note) ==
    LET row == [id |-> nextLogID, project_id |-> projectID, parent_id |-> parentID,
                username |-> username, note |-> note]
        fkOK == /\ \E p \in projects : p.id = projectID
                /\ parentID # 0 => \E e \in logEntries : e.id = parentID
    IN  IF note = "" \/ ~fkOK
        THEN /\ resp' = OtherBody
             /\ UNCHANGED <<logEntries, projOrder, nextLogID>>
        ELSE /\ logEntries' = logEntries \cup {row}
             /\ nextLogID' = nextLogID + 1
             /\ projOrder' = touch(projOrder, {projectID})
             /\ resp' = Timeline(username, projectID,
                    getLogEntries([projects |-> projects,
                                   logEntries |-> logEntries \cup {row},
                                   projOrder |-> projOrder],
                                  projectID, username))

\* CreateLogEntry (302-328): note check (400), the insert without parent.
CreateLogEntry(username, projectID, note) ==
    /\ insertLogEntry(username, projectID, 0, note)
    /\ UNCHANGED <<projects, nextProjectID>>
    /\ UNCHANGED <<migVars, Users, visVars, stores, items, nextStoreID,
                   nextItemID, mainVars, authVars, inflight>>

\* CreateLogReply (331-356): note check (400), the insert with parent_id =
\* the logId of the URL.
CreateLogReply(username, projectID, parentID, note) ==
    /\ insertLogEntry(username, projectID, parentID, note)
    /\ UNCHANGED <<projects, nextProjectID>>
    /\ UNCHANGED <<migVars, Users, visVars, stores, items, nextStoreID,
                   nextItemID, mainVars, authVars, inflight>>

\* DeleteLogEntry (359-374): DELETE FROM log_entries WHERE id = ? AND
\* username = ?; the replies below go with the row; then the caller's
\* timeline of the project of the URL.
DeleteLogEntry(username, projectID, logID) ==
    LET deleted == {e \in logEntries : e.id = logID /\ e.username = username}
        left == cascadeDelete(logEntries \ deleted, {e.id : e \in deleted})
    IN  /\ logEntries' = left
        /\ resp' = Timeline(username, projectID,
               getLogEntries([projects |-> projects, logEntries |-> left,
                              projOrder |-> projOrder], projectID, username))
        /\ UNCHANGED <<projects, projOrder, nextProjectID, nextLogID>>
        /\ UNCHANGED <<migVars, Users, visVars, stores, items, nextStoreID,
                       nextItemID, mainVars, authVars, inflight>>

\* The error branch of the handlers (`if err != nil { http.Error(w, ...,
\* 500); return }`) on a store failure: no row changed.
ProjExecFails ==
    /\ resp' = OtherBody
    /\ UNCHANGED projVars
    /\ UNCHANGED <<migVars, Users, visVars, stores, items, nextStoreID,
                   nextItemID, mainVars, authVars, inflight>>

\* The projects process serving requests, its tables migrated and empty.
InitProj ==
    /\ active = {}
    /\ MigIdle
    /\ Users = ExampleRoster
    /\ VisIdle
    /\ TodoIdle
    /\ ProjIdle
    /\ MainIdle
    /\ AuthIdle

ProjRequest ==
    \/ \E c \in ProjCallers, f \in HomeFilters : ProjectsHome(c, f)
    \/ \E c \in ProjCallers, form \in ProjForms : CreateProject(c, form)
    \/ \E c \in ProjCallers, id \in 1..MaxProjects : EditProjectForm(c, id)
    \/ \E c \in ProjCallers, id \in 1..MaxProjects, form \in ProjForms :
          UpdateProject(c, id, form)
    \/ \E c \in ProjCallers, id \in 1..MaxProjects, stage \in StageValues :
          UpdateProjectStage(c, id, stage)
    \/ \E c \in ProjCallers, id \in 1..MaxProjects : DeleteProject(c, id)
    \/ \E c \in ProjCallers, id \in 1..MaxProjects : ProjectDetail(c, id)
    \/ \E c \in ProjCallers, id \in 1..MaxProjects, note \in FormNotes :
          nextLogID <= MaxLogs /\ CreateLogEntry(c, id, note)
    \/ \E c \in ProjCallers, id \in 1..MaxProjects, logId \in 1..MaxLogs,
          note \in FormNotes :
          nextLogID <= MaxLogs /\ CreateLogReply(c, id, logId, note)
    \/ \E c \in ProjCallers, id \in 1..MaxProjects, logId \in 1..MaxLogs :
          DeleteLogEntry(c, id, logId)
    \/ ProjExecFails

NextProj == ProjRequest

SpecProj == InitProj /\ [][NextProj]_vars

\* The timeline of one project: a user creates a project, the users add
\* entries and replies (to entries and to replies) and open the project page.
ThreadForm == CHOOSE form \in ProjForms : form.short_name = "tool"

NextThread ==
    \/ \E c \in ProjCallers : nextProjectID <= 1 /\ CreateProject(c, ThreadForm)
    \/ \E c \in ProjCallers, note \in FormNotes :
          nextLogID <= MaxThread /\ CreateLogEntry(c, 1, note)
    \/ \E c \in ProjCallers, logId \in 1..MaxThread, note \in FormNotes :
          nextLogID <= MaxThread /\ CreateLogReply(c, 1, logId, note)
    \/ \E c \in ProjCallers : ProjectDetail(c, 1)

SpecThread == InitProj /\ [][NextThread]_vars

----------------------------------------------------------------------------
(* Properties of the projects handlers, checked under SpecProj *)

\* C11 -- Every owner-filtered read or write builds its owner predicate from
\* the caller's full visibility set: a project owned by any member of
\* sharedUsernames(c) is returned by the unfiltered getProjects and by
\* getProject for caller c (and is so reachable by c's updates and deletes,
\* which use the same predicate).
C11_FullVisibilitySet ==
    \A c \in ProjCallers : \A p \in projects :
        p.username \in Vis(c)
        => /\ p \in Range(getProjects(PDB, c, "", "", 0))
           /\ getProject(PDB, p.id, c) # {}

\* C20 -- A reply has its parent in the same owning collection: every log
\* entry with a non-null parent_id has a parent entry with the same
\* project_id whose owner lies in the same tenant (the reply's owner is in
\* the visibility set of the parent's owner).
C20_ReplyInParentsCollection ==
    \A e \in logEntries :
        e.parent_id # 0
        => \E parent \in logEntries :
               /\ parent.id = e.parent_id
               /\ parent.project_id = e.project_id
               /\ e.username \in Vis(parent.username)

\* A request of caller c to the projects app.
ProjRequestBy(c) ==
    \/ \E id \in 1..MaxProjects, note \in FormNotes : CreateLogEntry(c, id, note)
    \/ \E id \in 1..MaxProjects, logId \in 1..MaxLogs, note \in FormNotes :
          CreateLogReply(c, id, logId, note)
    \/ \E id \in 1..MaxProjects, logId \in 1..MaxLogs : DeleteLogEntry(c, id, logId)
    \/ \E id \in 1..MaxProjects : DeleteProject(c, id)
    \/ \E id \in 1..MaxProjects, form \in ProjForms : UpdateProject(c, id, form)
    \/ \E id \in 1..MaxProjects, stage \in StageValues :
          UpdateProjectStage(c, id, stage)
    \/ \E form \in ProjForms : CreateProject(c, form)

\* The step changed or removed a row of another username than c: a project
\* row or its updated_at (it became the latest), or a log entry.
ChangedRowsOfOthers(c) ==
    \/ \E p \in projects :
          /\ p.username # c
          /\ \/ p \notin projects'
             \/ projOrder'[1] = p.id /\ projOrder[1] # p.id
    \/ \E e \in logEntries : e.username # c /\ e \notin logEntries'

\* The usernames on the rows of a response of the projects app.
ResponseOwners(r) ==
    IF "kind" \notin DOMAIN r THEN {}
    ELSE {r.rows[k].username : k \in DOMAIN r.rows}
         \cup (IF "entries" \notin DOMAIN r THEN {}
               ELSE UNION {{r.entries[k].Username}
                            \cup {r.entries[k].Children[j].Username :
                                     j \in DOMAIN r.entries[k].Children}
                           : k \in DOMAIN r.entries})

\* C21 -- Per-row user isolation in the projects app: no request of user u
\* changes a column of a project or log entry owned by a different username,
\* no log entry is attached to a project owned by a different username, and
\* no response to u contains a row owned by a different username.
C21_PerRowIsolation ==
    /\ [](\A e \in logEntries : \A p \in projects :
              p.id = e.project_id => p.username = e.username)
    /\ []("kind" \in DOMAIN resp => ResponseOwners(resp) \subseteq {resp.caller})
    /\ [][\A c \in ProjCallers : ChangedRowsOfOthers(c) => ~ProjRequestBy(c)]_vars

\* Filter values a caller of getProjects may pass: none, values some project
\* has, and values no project has (an unknown type, a negative rating).
StageFilters == {"", "idea", "released"}
TypeFilters == {"", "commercial", "open-source", "public", "other"}
RatingFilters == {-1, 0, 3}

\* C24 -- Project filtering: getProjects(u, stage, type, rating) returns
\* exactly the projects whose username is u and that match every active
\* filter (stage equal when the stage filter is non-empty, the commercial /
\* open-source / public flag set when the type filter names it, rating equal
\* when the rating filter is greater than 0), each once, and no other
\* project; with no active filter it returns all projects of u.
C24_ProjectFiltering ==
    \A u \in ProjCallers :
        /\ \A stage \in StageFilters, type \in TypeFilters, rating \in RatingFilters :
               LET got == getProjects(PDB, u, stage, type, rating)
                   want == {p \in projects :
                              /\ p.username = u
                              /\ stage = "" \/ p.stage = stage
                              /\ type = "commercial" => p.is_commercial
                              /\ type = "open-source" => p.is_open_source
                              /\ type = "public" => p.is_public
                              /\ rating <= 0 \/ p.rating = rating}
               IN  /\ Range(got) = want
                   /\ Len(got) = Cardinality(want)
        /\ Range(getProjects(PDB, u, "", "", 0)) = {p \in projects : p.username = u}

\* alice has two projects and the table rendered for her with a filter
\* shows one of them.
C24_Witness ==
    /\ Cardinality({p \in projects : p.username = "alice"}) = 2
    /\ "kind" \in DOMAIN resp
    /\ resp.kind = "projects" /\ resp.caller = "alice"
    /\ Len(resp.rows) = 1 /\ resp.rows[1].is_commercial

ProjectIDs(P) == {p.id : p \in P}
LogIDs(E) == {e.id : e \in E}

\* C29 -- Referential integrity in the projects app: every log entry's
\* project_id names an existing project and every non-null parent_id names an
\* existing log entry; a step that removes a project leaves no log entry of
\* it, a step that removes a log entry leaves no reply below it, and a log
\* entry is only inserted under a project that existed.
C29_ReferentialIntegrity ==
    /\ [](\A e \in logEntries :
              /\ e.project_id \in ProjectIDs(projects)
              /\ e.parent_id # 0 => e.parent_id \in LogIDs(logEntries))
    /\ [][(\A e \in logEntries' :
               /\ e.project_id \notin ProjectIDs(projects) \ ProjectIDs(projects')
               /\ e.parent_id \notin LogIDs(logEntries) \ LogIDs(logEntries'))
           /\ (\A n \in logEntries' \ logEntries :
                  n.project_id \in ProjectIDs(projects))]_vars

\* A project was deleted after two log entries had been written, and its
\* entries are gone while another project is left.
C29_Witness ==
    /\ nextProjectID = 3 /\ Cardinality(projects) = 1
    /\ nextLogID = 3 /\ logEntries = {}
    /\ resp = OtherBody

\* How often the entry with the given id occurs in a forest of LogEntry
\* values, at any depth.
RECURSIVE Occurrences(_, _)
Occurrences(forest, id) ==
    IF forest = <<>> THEN 0
    ELSE (IF Head(forest).ID = id THEN 1 ELSE 0)
         + Occurrences(Head(forest).Children, id)
         + Occurrences(Tail(forest), id)

\* The entry with the given id occurs below the entry with id parent, as one
\* of its Children.
RECURSIVE IsChildIn(_, _, _)
IsChildIn(forest, id, parent) ==
    /\ forest # <<>>
    /\ \/ /\ Head(forest).ID = parent
          /\ \E j \in DOMAIN Head(forest).Children : Head(forest).Children[j].ID = id
       \/ IsChildIn(Head(forest).Children, id, parent)
       \/ IsChildIn(Tail(forest), id, parent)

\* C23 -- Nested log entries: getLogEntries(project, user) returns a forest
\* in which every log entry of that project owned by the user appears exactly
\* once, an entry without parent as a root and an entry with a parent inside
\* the Children of its parent entry (replies to replies included).
C23_NestedLogEntries ==
    \A c \in ProjCallers, id \in 1..MaxProjects :
        LET forest == getLogEntries(PDB, id, c)
        IN  \A e \in logEntries :
                (e.project_id = id /\ e.username = c)
                => /\ Occurrences(forest, e.id) = 1
                   /\ e.parent_id = 0
                      => \E k \in DOMAIN forest : forest[k].ID = e.id
                   /\ e.parent_id # 0 => IsChildIn(forest, e.id, e.parent_id)

----------------------------------------------------------------------------
(* Process startup: main of apps/todo-list/main.go and apps/projects/main.go *)

Apps == {"todo-list", "projects"}

\* handlers.Migrations of the two apps, each statement named by what it
\* creates.
TodoMigrations == <<"stores", "items">>

ProjectsMigrations ==
    <<"projects", "log_entries", "idx_projects_username",
      "idx_log_entries_project", "idx_log_entries_parent",
      "idx_log_entries_username">>

\* The list main hands to RunMigrations, cut to the first MaxLen statements.
MigrationsOf(a) ==
    LET m == IF a = "todo-list" THEN TodoMigrations ELSE ProjectsMigrations
    IN  SubSeq(m, 1, IF Len(m) < MaxLen THEN Len(m) ELSE MaxLen)

\* database.Open: log.Fatalf when it fails.
MainOpen(ok) ==
    /\ mainPc = "start"
    /\ mainPc' = IF ok THEN "opened" ELSE "exited"
    /\ UNCHANGED <<app, migVars, Users, visVars, todoVars, projVars, authVars,
                   inflight>>

\* db.RunMigrations(handlers.Migrations) is called.
MainRunMigrations ==
    /\ mainPc = "opened"
    /\ StartRun(1, MigrationsOf(app))
    /\ mainPc' = "migrating"
    /\ UNCHANGED <<app, Users, visVars, todoVars, projVars, authVars, inflight>>

\* Mutant: the error of RunMigrations is logged and main goes on.
MainMigratedIgnoreError ==
    /\ mainPc = "migrating"
    /\ pc[1] = "done"
    /\ mainPc' = "listening"
    /\ UNCHANGED <<app, migVars, Users, visVars, todoVars, projVars, authVars,
                   inflight>>

\* RunMigrations has returned: log.Fatalf on an error, else main builds the
\* Handler and the router.
MainMigrated ==
    /\ mainPc = "migrating"
    /\ pc[1] = "done"
    /\ mainPc' = IF result[1] = Nil THEN "listening" ELSE "exited"
    /\ UNCHANGED <<app, migVars, Users, visVars, todoVars, projVars, authVars,
                   inflight>>

\* http.ListenAndServe: the listener accepts requests, or log.Fatal.
MainListen(ok) ==
    /\ mainPc = "listening"
    /\ mainPc' = IF ok THEN "serving" ELSE "exited"
    /\ UNCHANGED <<app, migVars, Users, visVars, todoVars, projVars, authVars,
                   inflight>>

\* The router hands a request to one of the app's handlers.
ServeTodo ==
    /\ mainPc = "serving"
    /\ app = "todo-list"
    /\ NextTodo

ServeProjects ==
    /\ mainPc = "serving"
    /\ app = "projects"
    /\ ProjRequest

\* A process of either app starts for the first time on its store.
InitMain ==
    /\ active = {1}
    /\ MigIdle
    /\ Users = ExampleRoster
    /\ VisIdle
    /\ TodoIdle
    /\ ProjIdle
    /\ app \in Apps
    /\ mainPc = "start"
    /\ AuthIdle

NextMain ==
    \/ \E ok \in BOOLEAN : MainOpen(ok)
    \/ MainRunMigrations
    \/ \E ok \in BOOLEAN :
          /\ mainPc = "migrating"
          /\ CreateTable(1, ok)
          /\ UNCHANGED <<Users, visVars, todoVars, projVars, mainVars, authVars, inflight>>
    \/ \E ok \in BOOLEAN :
          /\ mainPc = "migrating"
          /\ CheckApplied(1, ok)
          /\ UNCHANGED <<Users, visVars, todoVars, projVars, mainVars, authVars, inflight>>
    \/ \E ok \in BOOLEAN :
          /\ mainPc = "migrating"
          /\ ApplyMigration(1, ok)
          /\ UNCHANGED <<Users, visVars, todoVars, projVars, mainVars, authVars, inflight>>
    \/ \E ok \in BOOLEAN :
          /\ mainPc = "migrating"
          /\ RecordMigration(1, ok)
          /\ UNCHANGED <<Users, visVars, todoVars, projVars, mainVars, authVars, inflight>>
    \/ MainMigrated
    \/ \E ok \in BOOLEAN : MainListen(ok)
    \/ ServeTodo
    \/ ServeProjects

SpecMain == InitMain /\ [][NextMain]_vars

\* C14 -- Startup ordering: RunMigrations is invoked exactly once and before
\* the listener starts; the tables change and a response is produced only
\* while main is serving, which it is only after RunMigrations returned nil;
\* when RunMigrations returned an error the process exits, no handler has
\* run, and nothing happens afterwards.
C14_StartupOrdering ==
    /\ [](runs <= 1)
    /\ [](mainPc \in {"listening", "serving"}
            => runs = 1 /\ pc[1] = "done" /\ result[1] = Nil)
    /\ [](~(TodoIdle /\ ProjIdle) => mainPc = "serving")
    /\ [][(todoVars' # todoVars \/ projVars' # projVars)
            => /\ mainPc = "serving" /\ mainPc' = "serving"
               /\ runs = 1 /\ pc[1] = "done" /\ result[1] = Nil]_vars
    /\ []((pc[1] = "done" /\ result[1] # Nil)
            => mainPc \in {"migrating", "exited"} /\ TodoIdle /\ ProjIdle)
    /\ [][mainPc = "migrating" /\ pc[1] = "done" /\ result[1] # Nil
            => mainPc' = "exited"]_vars
    /\ [][mainPc # "exited"]_vars

\* The projects process serves a request after its migrations were applied.
C14_Witness ==
    /\ app = "projects" /\ mainPc = "serving"
    /\ Len(migrations) = Len(MigrationsOf(app))
    /\ projects # {} /\ logEntries # {}

----------------------------------------------------------------------------
(* Authentication: shared/auth (ValidateCredentials, GenerateToken,        *)
(* ValidateToken, Middleware, prefixPath) and Login / Logout of handler.go *)

\* Handler.JWTSecret, and the keys a presented token may be signed with.
JWTSecret == "secret"
SigningKeys == {JWTSecret, "guess"}

\* The alg header of a presented token; the HMAC family is what the key
\* function of ValidateToken accepts.
Methods == {"HS256", "HS512", "RS256", "none"}
SigningMethodHMAC == {"HS256", "HS384", "HS512"}

\* Form values of the login form.
LoginNames == {"alice", "bob", "dave"}
Passwords == {"pw1", "pw2"}

\* bcrypt: the hash of a password, and CompareHashAndPassword, which returns
\* nil exactly for the hash of that password (an empty or malformed
\* password_hash matches nothing).
HashPassword(password) == <<"$2a$", password>>
CompareHashAndPassword(hash, password) == hash = HashPassword(password)

\* Rosters with password hashes: two users; alice named twice with
\* different passwords; alice without a hash; nobody.
AuthRosters ==
    { << [Username |-> "alice", ShareGroup |-> "household",
          PasswordHash |-> HashPassword("pw1")],
         [Username |-> "bob", ShareGroup |-> "household",
          PasswordHash |-> HashPassword("pw2")] >>,
      << [Username |-> "alice", ShareGroup |-> "household",
          PasswordHash |-> HashPassword("pw1")],
         [Username |-> "alice", ShareGroup |-> "",
          PasswordHash |-> HashPassword("pw2")] >>,
      << [Username |-> "alice", ShareGroup |-> "", PasswordHash |-> <<>>],
         [Username |-> "bob", ShareGroup |-> "",
          PasswordHash |-> HashPassword("pw1")] >>,
      << >> }

\* Mutant: the loop goes on to the next entry after a wrong password.
RECURSIVE ValidateCredentialsAnyEntry(_, _, _, _)
ValidateCredentialsAnyEntry(username, password, users, i) ==
    IF i > Len(users) THEN [valid |-> FALSE, err |-> "user not found"]
    ELSE IF /\ users[i].Username = username
            /\ CompareHashAndPassword(users[i].PasswordHash, password)
         THEN [valid |-> TRUE, err |-> Nil]
         ELSE ValidateCredentialsAnyEntry(username, password, users, i + 1)

\* ValidateCredentials (98-110), the loop from entry i on: the first entry
\* with the username decides.
RECURSIVE ValidateCredentials(_, _, _, _)
ValidateCredentials(username, password, users, i) ==
    IF i > Len(users) THEN [valid |-> FALSE, err |-> "user not found"]
    ELSE IF users[i].Username = username
         THEN IF CompareHashAndPassword(users[i].PasswordHash, password)
              THEN [valid |-> TRUE, err |-> Nil]
              ELSE [valid |-> FALSE, err |-> "invalid password"]
         ELSE ValidateCredentials(username, password, users, i + 1)

\* A JWT: its alg header, the key it was signed with, its username claim
\* (hasUsername is FALSE when the claim is missing or not a string) and
\* whether its exp claim lies in the past.
Tokens ==
    [alg : Methods, key : SigningKeys, hasUsername : BOOLEAN,
     username : {"alice", "bob"}, expired : BOOLEAN]

\* GenerateToken (113-122): HS256 over the username, exp in 24 hours.
GenerateToken(username, secret) ==
    [alg |-> "HS256", key |-> secret, hasUsername |-> TRUE,
     username |-> username, expired |-> FALSE]

\* Mutant: the key function hands out the secret for every signing method
\* and the signature is not compared.
ValidateTokenUnverified(token, secret) ==
    IF token.hasUsername THEN [username |-> token.username, err |-> Nil]
    ELSE [username |-> "", err |-> "invalid token claims"]

\* ValidateToken (125-146): jwt.Parse with the key function (HMAC methods
\* only), the signature under the secret, the exp claim; then the username
\* claim as a string.
ValidateToken(token, secret) ==
    IF token.alg \notin SigningMethodHMAC
    THEN [username |-> "", err |-> "unexpected signing method"]
    ELSE IF token.key # secret
    THEN [username |-> "", err |-> "signature is invalid"]
    ELSE IF token.expired
    THEN [username |-> "", err |-> "token is expired"]
    ELSE IF ~token.hasUsername
    THEN [username |-> "", err |-> "invalid token claims"]
    ELSE [username |-> token.username, err |-> Nil]

\* Paths as sequences of pieces; "/" and " " are pieces of their own.
LoginPath == <<"/", "login">>
LoginErrorPath == <<"/", "login", "?error=Invalid credentials">>
RootPath == <<"/">>

\* The base paths a process is configured with.
BasePaths ==
    { <<>>, <<"/">>, <<"projects">>, <<"/", "projects">>,
      <<"/", "projects", "/">>, <<" ", "/", "projects", " ">> }

\* strings.TrimLeft / strings.TrimRight for one character, strings.TrimSpace
\* for spaces, strings.HasPrefix for "/".
RECURSIVE TrimLeft(_, _)
TrimLeft(s, c) == IF s # <<>> /\ Head(s) = c THEN TrimLeft(Tail(s), c) ELSE s

RECURSIVE TrimRight(_, _)
TrimRight(s, c) ==
    IF s # <<>> /\ s[Len(s)] = c THEN TrimRight(SubSeq(s, 1, Len(s) - 1), c) ELSE s

TrimSpace(s) == TrimRight(TrimLeft(s, " "), " ")
HasPrefixSlash(s) == s # <<>> /\ Head(s) = "/"

\* prefixPath (40-53).
prefixPath(base, path) ==
    LET b0 == TrimSpace(base)
    IN  IF b0 = <<>> \/ b0 = <<"/">> THEN path
        ELSE LET b1 == IF HasPrefixSlash(b0) THEN b0 ELSE <<"/">> \o b0
                 b2 == TrimRight(b1, "/")
                 p == IF HasPrefixSlash(path) THEN path ELSE <<"/">> \o path
             IN  b2 \o p

\* Mutant: a token that does not validate is let through.
MiddlewareNoValidation(cookie) ==
    /\ authResp' =
          IF cookie = NoCookie
          THEN Exchange("protected", cookie, "", "", 303,
                        prefixPath(basePath, LoginPath), NoCookie, FALSE, "")
          ELSE Exchange("protected", cookie, "", "", 200, <<>>, NoCookie, TRUE,
                        cookie.username)
    /\ UNCHANGED <<basePath, jar>>
    /\ UNCHANGED <<migVars, Users, visVars, todoVars, projVars, mainVars, inflight>>

\* Middleware (14-38) around a protected handler, for a request with the
\* given auth_token cookie: no cookie or a token that does not validate is
\* redirected to the login page, else the handler runs with the username in
\* the request context.
Middleware(cookie) ==
    /\ authResp' =
          IF cookie = NoCookie
          THEN Exchange("protected", cookie, "", "", 303,
                        prefixPath(basePath, LoginPath), NoCookie, FALSE, "")
          ELSE LET v == ValidateToken(cookie, JWTSecret)
               IN  IF v.err # Nil
                   THEN Exchange("protected", cookie, "", "", 303,
                                 prefixPath(basePath, LoginPath), NoCookie, FALSE, "")
                   ELSE Exchange("protected", cookie, "", "", 200, <<>>, NoCookie,
                                 TRUE, v.username)
    /\ UNCHANGED <<basePath, jar>>
    /\ UNCHANGED <<migVars, Users, visVars, todoVars, projVars, mainVars, inflight>>

\* Mutant: the cookie is set whatever ValidateCredentials returned.
LoginAlwaysCookie(username, password, ok) ==
    /\ jar' = GenerateToken(username, JWTSecret)
    /\ authResp' = Exchange("login", NoCookie, username, password, 303, RootPath,
                            GenerateToken(username, JWTSecret), FALSE, "")
    /\ UNCHANGED basePath
    /\ UNCHANGED <<migVars, Users, visVars, todoVars, projVars, mainVars, inflight>>

\* Login (37-65): invalid credentials are redirected to the login page with
\* an error; a failure of GenerateToken (ok = FALSE) is a 500; else the
\* auth_token cookie is set and the browser is redirected to "/".
Login(username, password, ok) ==
    LET v == ValidateCredentials(username, password, Users, 1)
        token == GenerateToken(username, JWTSecret)
    IN  /\ IF ~v.valid \/ v.err # Nil
           THEN /\ authResp' = Exchange("login", NoCookie, username, password, 303,
                                        LoginErrorPath, NoCookie, FALSE, "")
                /\ jar' = jar
           ELSE IF ~ok
           THEN /\ authResp' = Exchange("login", NoCookie, username, password, 500,
                                        <<>>, NoCookie, FALSE, "")
                /\ jar' = jar
           ELSE /\ authResp' = Exchange("login", NoCookie, username, password, 303,
                                        RootPath, token, FALSE, "")
                /\ jar' = token
        /\ UNCHANGED basePath
        /\ UNCHANGED <<migVars, Users, visVars, todoVars, projVars, mainVars, inflight>>

\* Logout (68-76): the cookie is cleared (MaxAge -1), redirect to /login.
Logout ==
    /\ jar' = NoCookie
    /\ authResp' = Exchange("logout", jar, "", "", 303, LoginPath, NoCookie, FALSE, "")
    /\ UNCHANGED basePath
    /\ UNCHANGED <<migVars, Users, visVars, todoVars, projVars, mainVars, inflight>>

\* Time passes beyond the exp claim of the browser's token.
TokenExpires ==
    /\ jar # NoCookie
    /\ ~jar.expired
    /\ jar' = [jar EXCEPT !.expired = TRUE]
    /\ UNCHANGED <<basePath, authResp>>
    /\ UNCHANGED <<migVars, Users, visVars, todoVars, projVars, mainVars, inflight>>

\* A process with a roster and a base path; requests to the protected routes
\* carry the browser's cookie or any token a client makes up.
InitAuth ==
    /\ active = {}
    /\ MigIdle
    /\ Users \in AuthRosters
    /\ VisIdle
    /\ TodoIdle
    /\ ProjIdle
    /\ MainIdle
    /\ basePath \in BasePaths
    /\ jar = NoCookie
    /\ authResp = NoExchange
    /\ inflight = NoRequest

NextAuth ==
    \/ \E u \in LoginNames, pw \in Passwords, ok \in BOOLEAN : Login(u, pw, ok)
    \/ Logout
    \/ TokenExpires
    \/ Middleware(jar)
    \/ \E t \in Tokens : Middleware(t)

SpecAuth == InitAuth /\ [][NextAuth]_vars

----------------------------------------------------------------------------
(* Properties of the authentication routes, checked under SpecAuth *)

\* The token was signed with the configured secret by an HMAC method, has
\* not expired and carries a username claim.
ValidatesUnderSecret(c) ==
    /\ c # NoCookie
    /\ c.alg \in SigningMethodHMAC
    /\ c.key = JWTSecret
    /\ ~c.expired
    /\ c.hasUsername

\* The login path below the configured base path: "/" and each segment of
\* the base path, then /login.
BasePrefixedLogin ==
    LET segs == SelectSeq(basePath, LAMBDA x : x \notin {"/", " "})
    IN  [k \in 1..(2 * Len(segs)) |-> IF k % 2 = 1 THEN "/" ELSE segs[k \div 2]]
            \o <<"/", "login">>

\* C22 -- Protected routes are gated by the JWT cookie: a handler wrapped by
\* Middleware runs only for a request whose auth_token cookie validates under
\* the configured secret, and then the username in the request context is
\* the token's username claim; a request with no cookie or an invalid token
\* gets a 303 redirect to the base-path-prefixed /login and the handler does
\* not run.
C22_ProtectedRoutesGated ==
    authResp.kind = "protected"
    => /\ authResp.ran <=> ValidatesUnderSecret(authResp.cookie)
       /\ authResp.ran => authResp.ctx = authResp.cookie.username
       /\ ~authResp.ran
          => /\ authResp.status = 303
             /\ authResp.location = BasePrefixedLogin

\* The handler ran for the cookie Login has set, under a base path that
\* needs trimming.
C22_Witness ==
    /\ authResp.kind = "protected"
    /\ authResp.ran
    /\ authResp.cookie = jar
    /\ authResp.ctx = "bob"
    /\ basePath = <<" ", "/", "projects", " ">>

\* The first roster entry with the username has the hash of the password.
FirstEntryMatches(username, password) ==
    LET hits == {i \in DOMAIN Users : Users[i].Username = username}
    IN  /\ hits # {}
        /\ LET first == CHOOSE i \in hits : \A j \in hits : i <= j
           IN  Users[first].PasswordHash = HashPassword(password)

\* C26 -- Credential check: ValidateCredentials returns (true, nil) exactly
\* when the first roster entry with the username has a hash that matches the
\* password, and false with a non-nil error in every other case; Login sets
\* the auth_token cookie only in the first case and otherwise redirects to
\* the login page without setting it.
C26_CredentialCheck ==
    /\ \A u \in LoginNames, pw \in Passwords :
           LET v == ValidateCredentials(u, pw, Users, 1)
           IN  /\ v.valid <=> FirstEntryMatches(u, pw)
               /\ v.valid <=> v.err = Nil
    /\ authResp.kind = "login"
       => /\ authResp.setCookie # NoCookie
             => FirstEntryMatches(authResp.username, authResp.password)
          /\ ~FirstEntryMatches(authResp.username, authResp.password)
             => /\ authResp.setCookie = NoCookie
                /\ authResp.status = 303
                /\ authResp.location = LoginErrorPath

\* alice is named twice; the password of her second entry is refused after
\* a login with the password of the first one has set the cookie.
C26_Witness ==
    /\ authResp.kind = "login"
    /\ authResp.username = "alice" /\ authResp.password = "pw2"
    /\ authResp.status = 303 /\ authResp.location = LoginErrorPath
    /\ \E i \in DOMAIN Users :
           Users[i].Username = "alice" /\ Users[i].PasswordHash = HashPassword("pw2")
    /\ jar # NoCookie /\ jar.username = "alice"

----------------------------------------------------------------------------
(* The shopping-list app: apps/shopping-list/handlers (handler.go,         *)
(* items.go). Its tables stores and items have the columns of the          *)
(* todo-list ones; every statement filters by the caller's own username.   *)

ShopCallers == {"alice", "bob"}

\* Form values of the name field of a store and of an item.
ShopStoreNames == {"", "market"}
ShopItemNames == {"", "milk", "eggs"}

\* An Item as getItems scans it, a Store as getStores builds it.
ShopItem(it) == [ID |-> it.id, Name |-> it.name, Checked |-> it.checked]
ShopStore(s, rendered) == [ID |-> s.id, Name |-> s.name, Items |-> rendered]

\* ORDER BY checked ASC, created_at DESC over item rows.
RECURSIVE shopOrderItems(_)
shopOrderItems(S) ==
    IF S = {} THEN <<>>
    ELSE LET m == CHOOSE x \in S : \A y \in S : itemRank(x) <= itemRank(y)
         IN  <<ShopItem(m)>> \o shopOrderItems(S \ {m})

\* Mutant: the earlier getItems (handler.go 137-161), which scans the checked
\* column into an int; the driver hands a BOOLEAN column over as a bool, the
\* Scan fails and the loop skips the row.
ShopGetItemsScanInt(db, storeID, username) == <<>>

\* getItems (421-445): WHERE store_id = ? AND username = ?, checked scanned
\* into a bool.
ShopGetItems(db, storeID, username) ==
    shopOrderItems({it \in db.items : it.store_id = storeID /\ it.username = username})

\* getStores (395-419): WHERE username = ? ORDER BY name (the names of the
\* model tie, rows come in rowid order), each store with its getItems.
RECURSIVE shopOrderStores(_, _, _)
shopOrderStores(db, S, username) ==
    IF S = {} THEN <<>>
    ELSE LET m == CHOOSE x \in S : \A y \in S : x.id <= y.id
         IN  <<ShopStore(m, ShopGetItems(db, m.id, username))>>
                 \o shopOrderStores(db, S \ {m}, username)

ShopGetStores(db, username) ==
    shopOrderStores(db, {s \in db.stores : s.username = username}, username)

\* Response bodies of the shopping-list handlers: the page or grid of the
\* caller's stores, an item fragment, or a plain body with a status.
ShopPage(kind, username, rendered) ==
    [grid |-> FALSE, kind |-> kind, status |-> 200, caller |-> username,
     stores |-> rendered]

ShopFragment(username, id, name, checked) ==
    [grid |-> FALSE, kind |-> "item", status |-> 200, caller |-> username,
     id |-> id, name |-> name, checked |-> checked]

ShopPlain(username, status) ==
    [grid |-> FALSE, kind |-> "plain", status |-> status, caller |-> username]

\* Home (364-379): the page with homeContent(getStores(username)).
ShopHome(username) ==
    /\ resp' = ShopPage("home", username, ShopGetStores(DB, username))
    /\ UNCHANGED <<stores, items, nextStoreID, nextItemID>>
    /\ UNCHANGED <<migVars, Users, visVars, projVars, mainVars, authVars, inflight>>

\* CreateStore (items.go 12-38): name check (400), INSERT, HX-Redirect.
ShopCreateStore(username, name) ==
    /\ nextStoreID <= MaxStores
    /\ IF name = ""
       THEN /\ resp' = ShopPlain(username, 400)
            /\ UNCHANGED <<stores, nextStoreID>>
       ELSE /\ stores' = stores \cup
                   {[id |-> nextStoreID, name |-> name, username |-> username]}
            /\ nextStoreID' = nextStoreID + 1
            /\ resp' = ShopPlain(username, 200)
    /\ UNCHANGED <<items, nextItemID>>
    /\ UNCHANGED <<migVars, Users, visVars, projVars, mainVars, authVars, inflight>>

\* DeleteStore (items.go 41-58): DELETE FROM stores WHERE id = ? AND
\* username = ?; the items of the store go with it; then the caller's grid.
ShopDeleteStore(username, storeID) ==
    LET deleted == {s \in stores : s.id = storeID /\ s.username = username}
    IN  /\ stores' = stores \ deleted
        /\ items' = cascadeItems(deleted)
        /\ resp' = ShopPage("grid", username,
               ShopGetStores([stores |-> stores \ deleted,
                              items |-> cascadeItems(deleted)], username))
        /\ UNCHANGED <<nextStoreID, nextItemID>>
        /\ UNCHANGED <<migVars, Users, visVars, projVars, mainVars, authVars, inflight>>

\* CreateItem (items.go 109-156): name check (400), INSERT INTO items with
\* the store id of the URL (500 when the foreign key names no store), then
\* the new item's fragment.
ShopCreateItem(username, storeID, name) ==
    /\ nextItemID <= MaxItems
    /\ IF name = ""
       THEN /\ resp' = ShopPlain(username, 400)
            /\ UNCHANGED <<items, nextItemID>>
       ELSE IF \A s \in stores : s.id # storeID
       THEN /\ resp' = ShopPlain(username, 500)
            /\ UNCHANGED <<items, nextItemID>>
       ELSE /\ items' = items \cup
                   {[id |-> nextItemID, store_id |-> storeID, name |-> name,
                     username |-> username, checked |-> FALSE]}
            /\ nextItemID' = nextItemID + 1
            /\ resp' = ShopFragment(username, nextItemID, name, FALSE)
    /\ UNCHANGED <<stores, nextStoreID>>
    /\ UNCHANGED <<migVars, Users, visVars, projVars, mainVars, authVars, inflight>>

\* Mutant: the row is read back with the caller's username in the WHERE.
ShopToggleItemOwnRow(username, itemID, scanOK) ==
    LET hit == {it \in items : it.id = itemID /\ it.username = username}
        toggled == {[it EXCEPT !.checked = ~it.checked] : it \in hit}
    IN  /\ items' = (items \ hit) \cup toggled
        /\ resp' = IF toggled = {} \/ ~scanOK THEN ShopPlain(username, 404)
                   ELSE LET it == CHOOSE x \in toggled : TRUE
                        IN  ShopFragment(username, it.id, it.name, it.checked)
        /\ UNCHANGED <<stores, nextStoreID, nextItemID>>
        /\ UNCHANGED <<migVars, Users, visVars, projVars, mainVars, authVars, inflight>>

\* ToggleItem (items.go 159-221): UPDATE items SET checked = NOT checked
\* WHERE id = ? AND username = ?; then SELECT name, quantity, checked FROM
\* items WHERE id = ?, scanned with checked as an int: 404 when no row has
\* the id or the Scan fails (scanOK = FALSE: the driver hands the column over
\* as a value that does not convert to an int), else the item's fragment.
ShopToggleItem(username, itemID, scanOK) ==
    LET hit == {it \in items : it.id = itemID /\ it.username = username}
        toggled == {[it EXCEPT !.checked = ~it.checked] : it \in hit}
        after == (items \ hit) \cup toggled
        found == {it \in after : it.id = itemID}
    IN  /\ items' = after
        /\ resp' = IF found = {} \/ ~scanOK THEN ShopPlain(username, 404)
                   ELSE LET it == CHOOSE x \in found : TRUE
                        IN  ShopFragment(username, it.id, it.name, it.checked)
        /\ UNCHANGED <<stores, nextStoreID, nextItemID>>
        /\ UNCHANGED <<migVars, Users, visVars, projVars, mainVars, authVars, inflight>>

\* DeleteItem (items.go 224-240): DELETE FROM items WHERE id = ? AND
\* username = ?; an empty 200.
ShopDeleteItem(username, itemID) ==
    /\ items' = {it \in items : ~(it.id = itemID /\ it.username = username)}
    /\ resp' = ShopPlain(username, 200)
    /\ UNCHANGED <<stores, nextStoreID, nextItemID>>
    /\ UNCHANGED <<migVars, Users, visVars, projVars, mainVars, authVars, inflight>>

\* The error branch of the handlers on a store failure: 500, no row changed.
ShopExecFails ==
    /\ \E c \in ShopCallers : resp' = ShopPlain(c, 500)
    /\ UNCHANGED <<stores, items, nextStoreID, nextItemID>>
    /\ UNCHANGED <<migVars, Users, visVars, projVars, mainVars, authVars, inflight>>

\* The shopping-list process serving requests, its tables migrated and empty.
NextShop ==
    \/ \E c \in ShopCallers : ShopHome(c)
    \/ \E c \in ShopCallers, name \in ShopStoreNames : ShopCreateStore(c, name)
    \/ \E c \in ShopCallers, id \in 1..MaxStores : ShopDeleteStore(c, id)
    \/ \E c \in ShopCallers, id \in 1..MaxStores, name \in ShopItemNames :
          ShopCreateItem(c, id, name)
    \/ \E c \in ShopCallers, id \in 1..MaxItems, scanOK \in BOOLEAN :
          ShopToggleItem(c, id, scanOK)
    \/ \E c \in ShopCallers, id \in 1..MaxItems : ShopDeleteItem(c, id)
    \/ ShopExecFails

SpecShop == InitProj /\ [][NextShop]_vars

----------------------------------------------------------------------------
(* Properties of the shopping-list handlers, checked under SpecShop *)

\* C25 -- Saved rows are shown to their owner in shopping-list: for every
\* store owned by user u and every item of that store owned by u,
\* getItems(store, u) returns the item, and the Home response for u has
\* status 200 and contains the store's name and, under it, the item's name.
C25_SavedRowsShown ==
    \A u \in ShopCallers :
        LET page == ShopPage("home", u, ShopGetStores(DB, u))
        IN  \A s \in stores : \A it \in items :
                (s.username = u /\ it.store_id = s.id /\ it.username = u)
                => /\ \E j \in DOMAIN ShopGetItems(DB, s.id, u) :
                          /\ ShopGetItems(DB, s.id, u)[j].ID = it.id
                          /\ ShopGetItems(DB, s.id, u)[j].Name = it.name
                   /\ page.status = 200
                   /\ \E k \in DOMAIN page.stores :
                          /\ page.stores[k].Name = s.name
                          /\ \E j \in DOMAIN page.stores[k].Items :
                                 page.stores[k].Items[j].Name = it.name

\* The home page rendered for alice shows her store with two items of hers,
\* a checked one below an unchecked one.
C25_Witness ==
    /\ resp.grid = FALSE /\ "kind" \in DOMAIN resp
    /\ resp.kind = "home" /\ resp.caller = "alice" /\ resp.status = 200
    /\ Len(resp.stores) = 1 /\ Len(resp.stores[1].Items) = 2
    /\ resp.stores[1].Items[2].Checked
    /\ resp.stores[1].Items[1].Name # resp.stores[1].Items[2].Name

\* A ToggleItem request of caller c.
ShopToggleBy(c) ==
    \E id \in 1..MaxItems, scanOK \in BOOLEAN : ShopToggleItem(c, id, scanOK)

====
